---- MODULE Spec2Model ----
(***************************************************************************)
(* Verification model of the secure-openclaw messaging gateway.            *)
(*                                                                         *)
(*   Spec          the run path: inbound message handler, run coordinator, *)
(*                 provider abort registry, /stop, cron execute handler    *)
(*   SpecApproval  the approval broker: waitForApproval, its prompt send,  *)
(*                 its deadline timer and the inbound message handler      *)
(*   SpecProvider  one provider query stream (Claude, Opencode) with abort *)
(*   FairProvider  SpecProvider with the fairness of the JS event loop     *)
(*                                                                         *)
(* agent/runner.js and agent/claude-agent.js are not part of the sources   *)
(* at hand: the run coordinator is modelled from the specification text    *)
(* (section 4.1), everything else from the code.                           *)
(***************************************************************************)
EXTENDS Integers, Sequences, FiniteSets, TLC

\* ---------------------------------------------------------------- bounds
NumKeys == 2      \* conversations; one session key per conversation
MaxRuns == 3      \* runs enqueued over one behaviour
NumJobs == 2      \* scheduled jobs
MaxReq  == 2      \* approval requests over one behaviour
MaxQueries == 2   \* provider queries over one behaviour
MaxChunks == 2    \* non-terminal events yielded by one query stream
MaxSwitches == 1  \* provider switches over one behaviour
MaxSel == 2       \* interactive /model and /provider selections over one behaviour
NumModels == 2    \* entries of the model menu
NumContacts == 2  \* WhatsApp contacts, each with a phone JID and a LID
NumGroups == 1    \* WhatsApp groups
MaxWaMsgs == 1    \* messages emitted by the WhatsApp adapter over one behaviour
MaxWaSent == 1    \* messages sent through the WhatsApp adapter
MaxTime == 4      \* ticks of the scheduler's clock
MaxFires == 2     \* fire events of one job over one behaviour
MaxBuf == 3       \* characters typed into the terminal's approval prompt
MaxHandlers == 3  \* inbound messages followed through the handler's awaits
MaxEcho == 2      \* messages the bot sends whose echoes are followed
MaxTermRuns == 3  \* messages submitted in one terminal chat
MaxSnap == 2      \* characters of a cumulative text snapshot
MaxOcEvents == 4  \* backend events one Opencode event loop reads

Chats   == 1..NumKeys
Keys    == 1..NumKeys
Jobs    == 1..NumJobs
RunIds  == 1..MaxRuns
ReqIds  == 1..MaxReq
QueryIds == 1..MaxQueries
Insts == 1..(MaxSwitches + 1)
SelIds == 1..MaxSel
\* session keys known to the provider: the chats' keys and `cron:<jobId>`
AllKeys == 1..(NumKeys + NumJobs)

\* adapter.generateSessionKey(agentId, platform, message): one key per chat
SessionKey(c) == c
\* gateway.js:115  sessionKey || `cron:${jobId}`   (0 stands for "no key")
\* the execute handler of a job between two fire events
IdleCron == [state |-> "idle", key |-> 0, chatId |-> 0, text |-> ""]

\* message texts of scheduled jobs; what the agent answers
CronMessages == {"ping", "report"}
AgentResponse == "response"

\* no record of the job in the persisted store
NoJob == [kind |-> "none", next |-> 0]

\* the recurring jobs' expression matches every Period ticks
Period == 2

\* the first time after t the expression matches
NextMatch(t) == ((t \div Period) + 1) * Period

CronSessionKey(key, j) == IF key = 0 THEN NumKeys + j ELSE key

Texts == {"hello", "/stop"}

None == <<"none", 0>>
RunExec(r)  == <<"run", r>>
CronExec(j) == <<"cron", j>>
QExec(q)    == <<"query", q>>
Execs == {RunExec(r) : r \in RunIds} \cup {CronExec(j) : j \in Jobs}

\* WhatsApp ids: '*', <number>@s.whatsapp.net, <lid>@lid, <id>@g.us
Star == <<"*", 0>>
Phone(n) == <<"phone", n>>
Lid(n) == <<"lid", n>>
Group(n) == <<"group", n>>
Phones == {Phone(n) : n \in 1..NumContacts}
Lids == {Lid(n) : n \in 1..NumContacts}
Groups == {Group(n) : n \in 1..NumGroups}
Jids == Phones \cup Lids \cup Groups

Unresolved == "<unresolved>"
Null       == "<null>"

VARIABLES
  \* run coordinator (agent/runner.js)
  queues,            \* session key -> FIFO of queued run ids
  activeRuns,        \* session key -> run id being processed, 0 if none
  status,            \* run id -> none|queued|processing|completed|failed|aborted
  runKey,            \* run id -> session key (0 before the run exists)
  nextRunId,
  \* provider (providers/*.js)
  abortControllers,  \* session key -> execution owning the registered controller
  signalled,         \* executions whose AbortController was aborted
  sessions,          \* session key -> backend session token stored (None if none)
  agentSessions,     \* keys with an entry in agent.sessions
  registry,          \* keys with an entry in sessionManager.sessions
  \* cron execute handler (gateway.js)
  cronExec,          \* job -> [state: idle|running|sending, key, chatId, text]
  cronLog,           \* job -> what the handler last wrote with console.error
  cronJobs,          \* the jobs the scheduler holds
  cronEscaped,       \* a rejection left the execute handler
  \* scheduler (persistent job store)
  jobStore,          \* persisted: job -> [kind: once|cron, next] or NoJob
  jobIds,            \* job identifiers handed out so far
  now,               \* the scheduler's clock
  jobFires,          \* job -> fire events emitted for it
  bootFires,         \* job -> fire events emitted before the last process start
  \* command handler
  lastStop,          \* response of the last /stop command
  pendingModelSelect,    \* chat -> selection registered by /model, 0 if none
  pendingProviderSelect, \* chat -> selection registered by /provider, 0 if none
  selChat,           \* selection -> chat (0 before the selection exists)
  selKind,           \* selection -> "model" | "provider"
  selInst,           \* selection -> provider instance read when the command began
  selCurrent,        \* selection -> agent.providerName read when the command began
  selState,          \* selection -> none|menu|waiting|done|failed
  selResult,         \* selection -> Unresolved | Null | reply text
  selResponse,       \* selection -> response its command returned
  selTimer,          \* selection -> its 30 s timer is still to fire
  nextSel,
  \* approval broker (gateway.js)
  pendingApprovals,  \* chat -> request id registered, 0 if none
  reqChat,           \* request -> chat (0 before the request exists)
  reqResult,         \* request -> Unresolved | Null | reply text
  reqTimer,          \* request -> its deadline timer is armed
  reqSend,           \* request -> none|inflight|done  (prompt sendMessage)
  nextReq,
  \* one provider instance and its query streams (providers/*.js)
  pKind,             \* "claude" | "opencode": agent.providerName
  currentModel,      \* model chosen on agent.provider, 0 for the default
  inst,              \* number of the provider instance in agent.provider
  retired,           \* replaced instance -> its token store
  qPc,               \* query -> idle|init|setup|stream|after_error|final|ended
  qKey,              \* query -> chatId of the query (0 before it starts)
  qEvents,           \* query -> what the stream has yielded (or thrown) so far
  qKind,             \* query -> kind of the provider instance it runs on
  qInst,             \* query -> provider instance it runs on (0 before it starts)
  qSession,          \* query -> backend session the query talks in (None: not known yet)
  \* WhatsApp adapter (adapters/whatsapp.js)
  waAllowedDMs,      \* config.allowedDMs
  waAllowedGroups,   \* config.allowedGroups
  waMentionsOnly,    \* config.respondToMentionsOnly
  waConnected,       \* the connection has opened
  lidToPhone,        \* LID -> phone JID (None if unmapped)
  phoneToLid,        \* phone JID -> LID (None if unmapped)
  waEmitted,         \* messages handed to the gateway by emitMessage
  waSent,            \* number of sock.sendMessage calls
  waDownloads,       \* number of downloadImage calls
  \* terminal chat (terminalChat)
  pendingApprovalResolve, \* tool request whose resolver the variable holds (0: null)
  approvalInputBuffer,    \* characters typed at the approval prompt
  termReply,         \* tool request -> reply its promise resolved with (None: pending)
  termBehavior,      \* tool request -> behavior canUseTool returned ("" while pending)
  nextTermReq,
  \* the inbound message handler, one entry per message (gateway.js:269-357)
  hPc,               \* message -> the await the handler stands at
  hText,             \* message -> its text
  hRun,              \* message -> run enqueued for it (0: none)
  hReact,            \* message -> queueStatus.pending > 0 when it was read
  hCaught,           \* message -> what threw into the catch block ("" if nothing)
  hFailed,           \* message -> a socket call of sendTyping/react/stopTyping failed
  hApology,          \* message -> "", "sent" or "failed": the apology
  hasTyping,         \* the adapter has sendTyping
  hasStop,           \* the adapter has stopTyping
  hasReact,          \* the adapter has react
  \* the event loop of one Opencode query (opencode-provider.js:189-284)
  userMessageId,     \* message id taken for the user's message (0: null)
  lastYieldedLength, \* part id -> characters of the part yielded so far
  yieldedToolCalls,  \* tool invocation ids announced
  ocYielded,         \* what the loop has yielded, each event with the part it came from
  ocSnapshot,        \* part id -> latest snapshot the delta code was given
  ocExtends,         \* part id -> every snapshot so far extended the one before
  ocStates,          \* tool invocation id -> the states its updates carried, in order
  ocRead,            \* number of backend events read
  \* start-up of one Opencode provider instance (opencode-provider.js:46-114)
  useExistingServer, \* config.useExistingServer
  hasMcpServers,     \* the queries are given MCP servers to register
  iPc,               \* caller -> idle|creating|initialized|registering|ready|failed
  iKind,             \* caller -> "initialize" | "query": the method it called
  client,            \* caller whose initialize() set this.client (0: null)
  clientsCreated,    \* number of createOpencode / createOpencodeClient calls
  mcpRegistered,     \* this.mcpRegistered
  mcpAdded,          \* number of registration rounds (client.mcp.add per server)
  \* echoes of the bot's own messages (whatsapp.js:147-160, 269-276)
  sendState,         \* sent message -> none|sending|done|failed: its sock.sendMessage
  sendChat,          \* sent message -> JID it was sent to (None before)
  sentMessageIds,    \* this.sentMessageIds
  idTimers,          \* sent messages whose 10 s timer is armed
  echoArrived,       \* sent messages whose echo has been handled
  echoEmitted,       \* sent messages whose echo was emitted as an inbound message
  \* the input bar and the runs of terminal chat (terminalChat)
  isRunning,         \* the flag of the same name
  wasInterrupted,    \* the flag of the same name
  inputBuffer,       \* characters typed into the input bar
  tRun               \* submitted message -> none|streaming|aborting|ended: its agent.run

schedVars    == <<jobStore, jobIds, now, jobFires, bootFires>>
cronVars     == <<cronExec, cronLog, cronJobs, cronEscaped, schedVars>>
runnerVars   == <<queues, activeRuns, status, runKey, nextRunId>>
sessVars     == <<agentSessions, registry>>
providerVars == <<abortControllers, signalled, sessions, sessVars>>
selVars      == <<selChat, selKind, selInst, selCurrent, selState, selResult, selResponse, selTimer, nextSel>>
commandVars  == <<lastStop, pendingModelSelect, pendingProviderSelect, selVars>>
approvalVars == <<pendingApprovals, reqChat, reqResult, reqTimer, reqSend, nextReq>>
termVars     == <<pendingApprovalResolve, approvalInputBuffer, termReply, termBehavior,
                  nextTermReq>>
loopVars     == <<userMessageId, lastYieldedLength, yieldedToolCalls, ocYielded,
                  ocSnapshot, ocExtends, ocStates, ocRead>>
startVars    == <<useExistingServer, hasMcpServers, iPc, iKind, client, clientsCreated,
                  mcpRegistered, mcpAdded>>
echoVars     == <<sendState, sendChat, sentMessageIds, idTimers, echoArrived, echoEmitted>>
chatVars     == <<isRunning, wasInterrupted, inputBuffer, tRun>>
\* loopVars, startVars, echoVars, chatVars: changed by the actions of their
\* own section only
capVars      == <<hasTyping, hasStop, hasReact, loopVars, startVars, echoVars, chatVars>>
handlerVars  == <<hPc, hText, hRun, hReact, hCaught, hFailed, hApology, capVars>>
adapterVars  == <<waAllowedDMs, waAllowedGroups, waMentionsOnly, waConnected,
                  lidToPhone, phoneToLid, waEmitted, waSent, waDownloads, termVars,
                  handlerVars>>
queryVars    == <<qPc, qKey, qEvents, qKind, qInst, qSession>>
streamVars   == <<pKind, currentModel, inst, retired, queryVars>>
vars == <<queues, activeRuns, status, runKey, nextRunId,
          abortControllers, signalled, sessions, agentSessions, registry, cronExec, cronLog, cronJobs, cronEscaped,
          jobStore, jobIds, now, jobFires, bootFires,
          lastStop, pendingModelSelect, pendingProviderSelect,
          selChat, selKind, selInst, selCurrent, selState, selResult, selResponse, selTimer, nextSel,
          pendingApprovals, reqChat, reqResult, reqTimer, reqSend, nextReq,
          pKind, currentModel, inst, retired, qPc, qKey, qEvents, qKind, qInst, qSession,
          waAllowedDMs, waAllowedGroups, waMentionsOnly, waConnected,
          lidToPhone, phoneToLid, waEmitted, waSent, waDownloads,
          pendingApprovalResolve, approvalInputBuffer, termReply, termBehavior, nextTermReq,
          hPc, hText, hRun, hReact, hCaught, hFailed, hApology, hasTyping, hasStop, hasReact,
          userMessageId, lastYieldedLength, yieldedToolCalls, ocYielded, ocSnapshot,
          ocExtends, ocStates, ocRead,
          useExistingServer, hasMcpServers, iPc, iKind, client, clientsCreated,
          mcpRegistered, mcpAdded,
          sendState, sendChat, sentMessageIds, idTimers, echoArrived, echoEmitted,
          isRunning, wasInterrupted, inputBuffer, tRun>>

Terminal == {"completed", "failed", "aborted"}

\* parts of the messages of one backend session: a text part of one message,
\* and a text part, a reasoning part and two tool invocations of another
PartType == <<"text", "text", "reasoning", "tool", "tool">>
PartMsg == <<1, 2, 2, 2, 2>>
PartIds == DOMAIN PartType

\* the local state of the event loop when it is entered
InitLoop ==
  /\ userMessageId = 0
  /\ lastYieldedLength = [p \in PartIds |-> 0]
  /\ yieldedToolCalls = {}
  /\ ocYielded = <<>>
  /\ ocSnapshot = [p \in PartIds |-> <<>>]
  /\ ocExtends = [p \in PartIds |-> TRUE]
  /\ ocStates = [p \in PartIds |-> <<>>]
  /\ ocRead = 0

\* the provider as its constructor leaves it, nobody has called it yet
InitStart ==
  /\ iPc = [c \in QueryIds |-> "idle"]
  /\ iKind = [c \in QueryIds |-> ""]
  /\ client = 0
  /\ clientsCreated = 0
  /\ mcpRegistered = FALSE
  /\ mcpAdded = 0

\* a local server is started, MCP servers are configured
InitConfig ==
  /\ useExistingServer = FALSE
  /\ hasMcpServers = TRUE

\* nothing sent yet
InitEcho ==
  /\ sendState = [m \in 1..MaxEcho |-> "none"]
  /\ sendChat = [m \in 1..MaxEcho |-> None]
  /\ sentMessageIds = {}
  /\ idTimers = {}
  /\ echoArrived = {}
  /\ echoEmitted = {}

\* terminal chat when the input bar is drawn for the first time
InitChat ==
  /\ isRunning = FALSE
  /\ wasInterrupted = FALSE
  /\ inputBuffer = <<>>
  /\ tRun = [r \in 1..MaxTermRuns |-> "none"]

InitCore ==
  /\ InitLoop
  /\ InitStart
  /\ InitEcho
  /\ InitChat
  /\ queues = [k \in Keys |-> <<>>]
  /\ activeRuns = [k \in Keys |-> 0]
  /\ status = [r \in RunIds |-> "none"]
  /\ runKey = [r \in RunIds |-> 0]
  /\ nextRunId = 1
  /\ abortControllers = [k \in AllKeys |-> None]
  /\ signalled = {}
  /\ sessions = [k \in AllKeys |-> None]
  /\ agentSessions = {}
  /\ registry = {}
  /\ cronExec = [j \in Jobs |-> IdleCron]
  /\ cronLog = [j \in Jobs |-> ""]
  /\ cronEscaped = FALSE
  /\ pendingApprovalResolve = 0
  /\ approvalInputBuffer = <<>>
  /\ termReply = [r \in ReqIds |-> None]
  /\ termBehavior = [r \in ReqIds |-> ""]
  /\ nextTermReq = 1
  /\ hPc = [h \in 1..MaxHandlers |-> "idle"]
  /\ hText = [h \in 1..MaxHandlers |-> ""]
  /\ hRun = [h \in 1..MaxHandlers |-> 0]
  /\ hReact = [h \in 1..MaxHandlers |-> FALSE]
  /\ hCaught = [h \in 1..MaxHandlers |-> ""]
  /\ hFailed = [h \in 1..MaxHandlers |-> FALSE]
  /\ hApology = [h \in 1..MaxHandlers |-> ""]
  /\ now = 0
  /\ jobFires = [j \in Jobs |-> 0]
  /\ bootFires = [j \in Jobs |-> 0]
  /\ lastStop = ""
  /\ pendingModelSelect = [c \in Chats |-> 0]
  /\ pendingProviderSelect = [c \in Chats |-> 0]
  /\ selChat = [x \in SelIds |-> 0]
  /\ selKind = [x \in SelIds |-> ""]
  /\ selInst = [x \in SelIds |-> 0]
  /\ selCurrent = [x \in SelIds |-> ""]
  /\ selState = [x \in SelIds |-> "none"]
  /\ selResult = [x \in SelIds |-> Unresolved]
  /\ selResponse = [x \in SelIds |-> Unresolved]
  /\ selTimer = [x \in SelIds |-> FALSE]
  /\ nextSel = 1
  /\ currentModel = 0
  /\ pendingApprovals = [c \in Chats |-> 0]
  /\ reqChat = [r \in ReqIds |-> 0]
  /\ reqResult = [r \in ReqIds |-> Unresolved]
  /\ reqTimer = [r \in ReqIds |-> FALSE]
  /\ reqSend = [r \in ReqIds |-> "none"]
  /\ nextReq = 1
  /\ qPc = [q \in QueryIds |-> "idle"]
  /\ qKey = [q \in QueryIds |-> 0]
  /\ qEvents = [q \in QueryIds |-> <<>>]
  /\ inst = 1
  /\ retired = [i \in Insts |-> [k \in AllKeys |-> None]]
  /\ qKind = [q \in QueryIds |-> ""]
  /\ qInst = [q \in QueryIds |-> 0]
  /\ qSession = [q \in QueryIds |-> None]

\* every job is a recurring job, persisted and loaded
InitJobs ==
  /\ cronJobs = Jobs
  /\ jobStore = [j \in Jobs |-> [kind |-> "cron", next |-> NextMatch(0)]]
  /\ jobIds = Jobs

\* the WhatsApp adapter has the three optional methods
InitCaps ==
  /\ hasTyping = TRUE
  /\ hasStop = TRUE
  /\ hasReact = TRUE

\* the adapter before it connects, nothing emitted or sent yet
InitAdapter ==
  /\ waConnected = FALSE
  /\ lidToPhone = [l \in Lids |-> None]
  /\ phoneToLid = [ph \in Phones |-> None]
  /\ waEmitted = <<>>
  /\ waSent = 0
  /\ waDownloads = 0

\* WHATSAPP_ALLOWED_DMS=* and no group allowlist
InitCommon ==
  /\ InitCore
  /\ InitConfig
  /\ InitJobs
  /\ InitAdapter
  /\ InitCaps
  /\ waAllowedDMs = {Star}
  /\ waAllowedGroups = {}
  /\ waMentionsOnly = FALSE

\* any configuration of the allowlists (bare numbers are phone JIDs after
\* the constructor's normalisation)
InitWhatsApp ==
  /\ InitCore
  /\ InitConfig
  /\ InitJobs
  /\ InitAdapter
  /\ InitCaps
  /\ pKind = "claude"
  /\ waAllowedDMs \in SUBSET ({Star} \cup Phones \cup Lids)
  /\ waAllowedGroups \in SUBSET ({Star} \cup Groups)
  /\ waMentionsOnly \in BOOLEAN

\* WHATSAPP_ALLOWED_DMS=* or one number, any group allowlist, mention-only
\* answering on or off
InitMention ==
  /\ InitCore
  /\ InitConfig
  /\ InitJobs
  /\ InitAdapter
  /\ InitCaps
  /\ pKind = "claude"
  /\ waAllowedDMs \in {{Star}, {Phone(2)}}
  /\ waAllowedGroups \in SUBSET ({Star} \cup Groups)
  /\ waMentionsOnly \in BOOLEAN

\* an adapter with any of the optional methods
InitHandler ==
  /\ InitCore
  /\ InitConfig
  /\ InitJobs
  /\ InitAdapter
  /\ pKind = "claude"
  /\ waAllowedDMs = {Star}
  /\ waAllowedGroups = {}
  /\ waMentionsOnly = FALSE
  /\ hasTyping \in BOOLEAN
  /\ hasStop \in BOOLEAN
  /\ hasReact \in BOOLEAN

\* gateway.js:23  provider: config.agent?.provider || 'claude'
Init == InitCommon /\ pKind = "claude"

\* a provider instance of either kind (handler.js switchProvider)
InitProvider == InitCommon /\ pKind \in {"claude", "opencode"}

\* ------------------------------------------------------------- provider
\* query(): the controller of the new query is stored under the key,
\* replacing whatever was stored there
QueryStart(k, e, ctl) == [ctl EXCEPT ![k] = e]

\* query() finally: the entry of the key is deleted, whoever owns it
QueryEnd(k, ctl) == [ctl EXCEPT ![k] = None]

\* getSession(chatId) / setSession(chatId, id) of the provider's token store
GetSession(k, ses) == ses[k]
SetSession(k, t, ses) == [ses EXCEPT ![k] = t]

\* the token store after a query of execution e for key k has run far enough
\* to resume the stored token or to store one of its own
QuerySession(k, e, ses) ==
  IF GetSession(k, ses) = None THEN SetSession(k, e, ses) ELSE ses

\* mutant: abort reports success without looking for a controller
ProviderAbortAlways(k, ctl, sig) ==
  [aborted |-> TRUE,
   abortControllers |-> [ctl EXCEPT ![k] = None],
   signalled |-> IF ctl[k] # None THEN sig \cup {ctl[k]} ELSE sig]

\* abort(chatId): [aborted, abortControllers, signalled] after the call
ProviderAbort(k, ctl, sig) ==
  IF ctl[k] # None
  THEN [aborted |-> TRUE,
        abortControllers |-> [ctl EXCEPT ![k] = None],
        signalled |-> sig \cup {ctl[k]}]
  ELSE [aborted |-> FALSE, abortControllers |-> ctl, signalled |-> sig]

\* ------------------------------------------------------ run coordinator
\* mutant: the processing flag of the key is not consulted
ProcessQueueNoGuard(k, qs, ar, st) ==
  IF qs[k] # <<>>
  THEN [queues |-> [qs EXCEPT ![k] = Tail(@)],
        activeRuns |-> [ar EXCEPT ![k] = Head(qs[k])],
        status |-> [st EXCEPT ![Head(qs[k])] = "processing"],
        started |-> Head(qs[k])]
  ELSE [queues |-> qs, activeRuns |-> ar, status |-> st, started |-> 0]

\* mutant: the newest queued run is taken (pop instead of shift)
ProcessQueueLifo(k, qs, ar, st) ==
  IF ar[k] = 0 /\ qs[k] # <<>>
  THEN LET n == Len(qs[k])
       IN [queues |-> [qs EXCEPT ![k] = SubSeq(@, 1, n - 1)],
           activeRuns |-> [ar EXCEPT ![k] = qs[k][n]],
           status |-> [st EXCEPT ![qs[k][n]] = "processing"],
           started |-> qs[k][n]]
  ELSE [queues |-> qs, activeRuns |-> ar, status |-> st, started |-> 0]

\* start the next queued run of the key unless one is processing
ProcessQueue(k, qs, ar, st) ==
  IF ar[k] = 0 /\ qs[k] # <<>>
  THEN [queues |-> [qs EXCEPT ![k] = Tail(@)],
        activeRuns |-> [ar EXCEPT ![k] = Head(qs[k])],
        status |-> [st EXCEPT ![Head(qs[k])] = "processing"],
        started |-> Head(qs[k])]
  ELSE [queues |-> qs, activeRuns |-> ar, status |-> st, started |-> 0]

\* the provider registry once the coordinator has (or has not) started run r
StartQueryOf(k, r, ctl) == IF r = 0 THEN ctl ELSE QueryStart(k, RunExec(r), ctl)

\* enqueueRun(sessionKey, ...): append, then start it if the key is free
EnqueueRun(k) ==
  /\ nextRunId <= MaxRuns
  /\ LET r == nextRunId
         p == ProcessQueue(k, [queues EXCEPT ![k] = Append(@, r)], activeRuns,
                           [status EXCEPT ![r] = "queued"])
     IN /\ queues' = p.queues
        /\ activeRuns' = p.activeRuns
        /\ status' = p.status
        /\ runKey' = [runKey EXCEPT ![r] = k]
        /\ nextRunId' = nextRunId + 1
        /\ abortControllers' = StartQueryOf(k, p.started, abortControllers)
        /\ sessions' = IF p.started = 0 THEN sessions
                        ELSE QuerySession(k, RunExec(p.started), sessions)
        /\ agentSessions' = agentSessions \cup {k}
        /\ registry' = registry \cup {k}
        /\ UNCHANGED signalled

\* mutant: a failure rejects the queued runs of the key along with the run
FinishRunDropQueue(k, outcome) ==
  LET r == activeRuns[k]
      dropped == IF outcome = "failed" THEN {queues[k][i] : i \in 1..Len(queues[k])} ELSE {}
      p == ProcessQueue(k, IF outcome = "failed" THEN [queues EXCEPT ![k] = <<>>] ELSE queues,
                        [activeRuns EXCEPT ![k] = 0],
                        [o \in RunIds |-> IF o = r THEN outcome
                                          ELSE IF o \in dropped THEN "failed" ELSE status[o]])
  IN /\ queues' = p.queues
     /\ activeRuns' = p.activeRuns
     /\ status' = p.status
     /\ abortControllers' = StartQueryOf(k, p.started, QueryEnd(k, abortControllers))
     /\ sessions' = IF p.started = 0 THEN sessions
                     ELSE QuerySession(k, RunExec(p.started), sessions)
     /\ UNCHANGED sessVars
     /\ signalled' = signalled \ {RunExec(r)}
     /\ UNCHANGED <<runKey, nextRunId>>

\* mutant: the flag is cleared on completion but the queue is not looked at
FinishRunNoNext(k, outcome) ==
  LET r == activeRuns[k]
  IN /\ activeRuns' = [activeRuns EXCEPT ![k] = 0]
     /\ status' = [status EXCEPT ![r] = outcome]
     /\ abortControllers' = QueryEnd(k, abortControllers)
     /\ signalled' = signalled \ {RunExec(r)}
     /\ UNCHANGED <<queues, sessions, sessVars, runKey, nextRunId>>

\* the active run of the key ends; the next queued run of the key starts
FinishRun(k, outcome) ==
  LET r == activeRuns[k]
      p == ProcessQueue(k, queues, [activeRuns EXCEPT ![k] = 0],
                        [status EXCEPT ![r] = outcome])
  IN /\ queues' = p.queues
     /\ activeRuns' = p.activeRuns
     /\ status' = p.status
     /\ abortControllers' = StartQueryOf(k, p.started, QueryEnd(k, abortControllers))
     /\ sessions' = IF p.started = 0 THEN sessions
                     ELSE QuerySession(k, RunExec(p.started), sessions)
     /\ UNCHANGED sessVars
     /\ signalled' = signalled \ {RunExec(r)}
     /\ UNCHANGED <<runKey, nextRunId>>

RunCompleted(k) ==
  /\ activeRuns[k] # 0
  /\ RunExec(activeRuns[k]) \notin signalled
  /\ FinishRun(k, "completed")
  /\ UNCHANGED <<cronVars, adapterVars, commandVars, approvalVars, streamVars>>

RunFailed(k) ==
  /\ activeRuns[k] # 0
  /\ RunExec(activeRuns[k]) \notin signalled
  /\ FinishRun(k, "failed")
  /\ UNCHANGED <<cronVars, adapterVars, commandVars, approvalVars, streamVars>>

\* the stream of a run whose query was aborted ends with `aborted`
RunAborted(k) ==
  /\ activeRuns[k] # 0
  /\ RunExec(activeRuns[k]) \in signalled
  /\ FinishRun(k, "aborted")
  /\ UNCHANGED <<cronVars, adapterVars, commandVars, approvalVars, streamVars>>

\* abort(sessionKey): delegates to the provider's cancellation
RunnerAbort(k, ctl, sig) == ProviderAbort(k, ctl, sig)

\* ------------------------------------------------------ command handler
StopResponse(aborted) ==
  IF aborted THEN "Stopped current operation" ELSE "Nothing to stop"

\* handleStop(sessionKey)
HandleStop(k) ==
  LET res == RunnerAbort(k, abortControllers, signalled)
  IN /\ abortControllers' = res.abortControllers
     /\ signalled' = res.signalled
     /\ lastStop' = StopResponse(res.aborted)
     /\ UNCHANGED <<runnerVars, sessions, sessVars, pendingModelSelect, pendingProviderSelect, selVars>>

\* the characters of a text: '/', ' ', a line break, and each run of other
\* characters as one element; a text not listed is one such run
Chars(text) ==
  CASE text = "/stop" -> <<"/", "stop">>
    [] text = "/model" -> <<"/", "model">>
    [] text = "/model 2" -> <<"/", "model", " ", "2">>
    [] text = "/model zzz" -> <<"/", "model", " ", "zzz">>
    [] text = "/provider" -> <<"/", "provider">>
    [] text = "/provider claude" -> <<"/", "provider", " ", "claude">>
    [] text = "/provider opencode" -> <<"/", "provider", " ", "opencode">>
    [] text = "/new" -> <<"/", "new">>
    [] text = "/reset" -> <<"/", "reset">>
    [] text = " /RESET " -> <<" ", "/", "RESET", " ">>
    [] text = "/Status" -> <<"/", "Status">>
    [] text = "/memory x" -> <<"/", "memory", " ", "x">>
    [] text = "/queue" -> <<"/", "queue">>
    [] text = "/help" -> <<"/", "help">>
    [] text = "/foo" -> <<"/", "foo">>
    [] text = "/ new" -> <<"/", " ", "new">>
    [] text = "hi /stop" -> <<"hi", " ", "/", "stop">>
    [] text = "/stop\nnow" -> <<"/", "stop", "\n", "now">>
    [] text = "" -> <<>>
    [] OTHER -> <<text>>

\* mutant: the word is compared as typed
LowerNot(w) == w

\* String.prototype.toLowerCase on a run of characters
Lower(w) ==
  CASE w = "RESET" -> "reset"
    [] w = "Status" -> "status"
    [] w = "Y" -> "y"
    [] OTHER -> w

\* String.prototype.trim: white space at both ends removed
Trim(cs) ==
  LET keep == {i \in 1..Len(cs) : cs[i] \notin {" ", "\n"}}
  IN  IF keep = {} THEN <<>>
      ELSE SubSeq(cs, CHOOSE i \in keep : \A j \in keep : i <= j,
                      CHOOSE i \in keep : \A j \in keep : i >= j)

\* isCommand(text)
IsCommand(text) ==
  LET trimmed == Trim(Chars(text))
  IN  trimmed # <<>> /\ trimmed[1] = "/"

\* parse(text).command: what stands between the first character and the
\* first space, in lower case
ParseCommand(text) ==
  LET trimmed == Trim(Chars(text))
      spaces == {i \in 1..Len(trimmed) : trimmed[i] = " "}
      last == IF spaces = {} THEN Len(trimmed)
              ELSE (CHOOSE i \in spaces : \A j \in spaces : i <= j) - 1
      word == SubSeq(trimmed, 2, last)
  IN  [i \in 1..Len(word) |-> Lower(word[i])]

\* the cases of the switch in execute()
Commands == {"new", "reset", "status", "memory", "queue", "help", "stop",
             "model", "provider"}

\* the case execute() takes for the text; "" when execute() returns
\* { handled: false }
Dispatch(text) ==
  IF ~IsCommand(text) THEN ""
  ELSE LET command == ParseCommand(text)
       IN  IF Len(command) = 1 /\ command[1] \in Commands THEN command[1] ELSE ""

\* the texts of inbound messages
AllTexts == {"hello", "yes", "no", "1", "2", "9", "",
             "/stop", "/model", "/model 2", "/model zzz",
             "/provider", "/provider claude", "/provider opencode",
             "/new", "/reset", " /RESET ", "/Status", "/memory x", "/queue",
             "/help", "/foo", "/ new", "hi /stop", "/stop\nnow"}

DispatchTable == [text \in AllTexts |-> Dispatch(text)]

Command(text) == DispatchTable[text]

\* mutant: the reset clears every session
HandleResetAll(k) ==
  /\ agentSessions' = {}
  /\ registry' = {}
  /\ UNCHANGED <<abortControllers, signalled, sessions>>

\* handleReset(sessionKey, adapter, chatId)
HandleReset(k) ==
  /\ agentSessions' = agentSessions \ {k}
  /\ registry' = registry \ {k}
  /\ UNCHANGED <<abortControllers, signalled, sessions>>

\* parse(text).args
Args(text) ==
  CASE text = "/model 2" -> "2"
    [] text = "/model zzz" -> "zzz"
    [] text = "/provider claude" -> "claude"
    [] text = "/provider opencode" -> "opencode"
    [] OTHER -> ""

\* parseInt(text) for the texts of the model, 0 standing for NaN
ParseInt(text) ==
  CASE text = "1" -> 1
    [] text = "2" -> 2
    [] text = "9" -> 9
    [] OTHER -> 0

\* models.find(m => m.id.includes(args) || m.label...includes(args)): the
\* menu entry matched by name, 0 if none ("zzz" is part of no id or label)
NameMatch(args) == 0

\* getAvailableProviders()
AvailableProviders == <<"claude", "opencode">>

\* mutant: the new provider starts with the tokens of the old one
KeepSessions(ses) == ses

\* the token store of the provider instance getProvider() returns
ClearSessions(ses) == [k \in AllKeys |-> None]

NoSwitch == UNCHANGED <<pKind, inst, retired, sessions, sessVars, abortControllers>>

\* switchProvider(agent, providerName): agent.provider is a new instance,
\* the instance replaced goes on serving the queries it has in flight
SwitchProvider(target) ==
  /\ inst <= MaxSwitches
  /\ pKind' = target
  /\ inst' = inst + 1
  /\ retired' = [retired EXCEPT ![inst] = sessions]
  /\ sessions' = ClearSessions(sessions)
  /\ agentSessions' = {}
  /\ UNCHANGED registry
  /\ abortControllers' = [k \in AllKeys |-> None]
  /\ \E m \in {0, currentModel} : currentModel' = m

\* handleModel(args, ...) with an argument
HandleModelArg(args) ==
  /\ currentModel' = IF ParseInt(args) \in 1..NumModels THEN ParseInt(args)
                     ELSE IF NameMatch(args) # 0 THEN NameMatch(args)
                     ELSE currentModel
  /\ NoSwitch

\* handleProvider(args, ...) with an argument
HandleProviderArg(args) ==
  IF args \in {AvailableProviders[i] : i \in 1..Len(AvailableProviders)} /\ args # pKind
  THEN SwitchProvider(args)
  ELSE NoSwitch /\ UNCHANGED currentModel

\* /model or /provider without argument: the menu is sent, the handler waits
\* for adapter.sendMessage before it registers the selection
StartSelection(c, kind) ==
  /\ nextSel <= MaxSel
  /\ selChat' = [selChat EXCEPT ![nextSel] = c]
  /\ selKind' = [selKind EXCEPT ![nextSel] = kind]
  /\ selInst' = [selInst EXCEPT ![nextSel] = inst]
  /\ selCurrent' = [selCurrent EXCEPT ![nextSel] = pKind]
  /\ selState' = [selState EXCEPT ![nextSel] = "menu"]
  /\ nextSel' = nextSel + 1
  /\ UNCHANGED <<selResult, selResponse, selTimer, pendingModelSelect,
                 pendingProviderSelect, currentModel>>
  /\ NoSwitch

\* what the command does with the reply it was resolved with
ValidIndex(reply, n) == reply # Null /\ ParseInt(reply) \in 1..n

ModelResponse(reply) ==
  IF reply = Null THEN ""
  ELSE IF ValidIndex(reply, NumModels) THEN "Model set" ELSE "No change."

\* `current` is the provider name read before the menu was sent
ProviderResponse(x, reply) ==
  IF reply = Null THEN ""
  ELSE IF ~ValidIndex(reply, Len(AvailableProviders)) THEN "No change."
  ELSE IF AvailableProviders[ParseInt(reply)] = selCurrent[x] THEN "Already using"
  ELSE "Switched"

\* mutant: the number replied is taken as the model without the range check
ModelChoiceUnchecked(x, reply) ==
  /\ currentModel' = IF reply # Null /\ ParseInt(reply) # 0 THEN ParseInt(reply)
                     ELSE currentModel
  /\ NoSwitch

\* provider.setModel on the provider object read before the menu was sent:
\* it is the agent's model only if that object is still agent.provider
ModelChoice(x, reply) ==
  /\ currentModel' = IF ValidIndex(reply, NumModels) /\ selInst[x] = inst
                     THEN ParseInt(reply)
                     ELSE currentModel
  /\ NoSwitch

ProviderChoice(x, reply) ==
  IF ValidIndex(reply, Len(AvailableProviders))
       /\ AvailableProviders[ParseInt(reply)] # selCurrent[x]
  THEN SwitchProvider(AvailableProviders[ParseInt(reply)])
  ELSE NoSwitch /\ UNCHANGED currentModel

\* resolve(v) of the selection's promise and, when that settles it, the rest
\* of handleModel / handleProvider
SettleSelection(x, v) ==
  IF selResult[x] = Unresolved
  THEN /\ selResult' = [selResult EXCEPT ![x] = v]
       /\ selState' = [selState EXCEPT ![x] = "done"]
       /\ IF selKind[x] = "model"
          THEN /\ selResponse' = [selResponse EXCEPT ![x] = ModelResponse(v)]
               /\ ModelChoice(x, v)
          ELSE /\ selResponse' = [selResponse EXCEPT ![x] = ProviderResponse(x, v)]
               /\ ProviderChoice(x, v)
  ELSE /\ UNCHANGED <<selResult, selState, selResponse, currentModel>>
       /\ NoSwitch

\* adapter.sendMessage(chatId, menu) resolved: the selection is registered
\* under the chat, replacing what is registered there, and its timer starts
MenuSent(x) ==
  /\ selState[x] = "menu"
  /\ selState' = [selState EXCEPT ![x] = "waiting"]
  /\ selTimer' = [selTimer EXCEPT ![x] = TRUE]
  /\ IF selKind[x] = "model"
     THEN /\ pendingModelSelect' = [pendingModelSelect EXCEPT ![selChat[x]] = x]
          /\ UNCHANGED pendingProviderSelect
     ELSE /\ pendingProviderSelect' = [pendingProviderSelect EXCEPT ![selChat[x]] = x]
          /\ UNCHANGED pendingModelSelect
  /\ UNCHANGED <<selChat, selKind, selInst, selCurrent, selResult, selResponse, nextSel, lastStop>>
  /\ UNCHANGED <<runnerVars, providerVars, cronVars, adapterVars, approvalVars, streamVars>>

\* ... or rejected: handleModel / handleProvider throws before registering
MenuSendFailed(x) ==
  /\ selState[x] = "menu"
  /\ selState' = [selState EXCEPT ![x] = "failed"]
  /\ selResponse' = [selResponse EXCEPT ![x] = "throw"]
  /\ UNCHANGED <<selChat, selKind, selInst, selCurrent, selResult, selTimer, nextSel, lastStop,
                 pendingModelSelect, pendingProviderSelect>>
  /\ UNCHANGED <<runnerVars, providerVars, cronVars, adapterVars, approvalVars, streamVars>>

\* the setTimeout callback of the selection, 30 s after it was registered:
\* if the chat has an entry, the entry is deleted and this selection's own
\* resolve is called with null
SelectTimeout(x) ==
  /\ selTimer[x]
  /\ selTimer' = [selTimer EXCEPT ![x] = FALSE]
  /\ IF selKind[x] = "model"
     THEN /\ UNCHANGED pendingProviderSelect
          /\ IF pendingModelSelect[selChat[x]] # 0
             THEN /\ pendingModelSelect' = [pendingModelSelect EXCEPT ![selChat[x]] = 0]
                  /\ SettleSelection(x, Null)
             ELSE /\ UNCHANGED <<pendingModelSelect, selResult, selState, selResponse,
                                 currentModel>>
                  /\ NoSwitch
     ELSE /\ UNCHANGED pendingModelSelect
          /\ IF pendingProviderSelect[selChat[x]] # 0
             THEN /\ pendingProviderSelect' = [pendingProviderSelect EXCEPT ![selChat[x]] = 0]
                  /\ SettleSelection(x, Null)
             ELSE /\ UNCHANGED <<pendingProviderSelect, selResult, selState, selResponse,
                                 currentModel>>
                  /\ NoSwitch
  /\ UNCHANGED <<selChat, selKind, selInst, selCurrent, nextSel, lastStop, signalled>>
  /\ UNCHANGED <<runnerVars, cronVars, adapterVars, approvalVars, queryVars>>

\* ------------------------------------------------------ approval broker
\* resolve(v) of the request's promise: only the first call settles it
Resolve(res, r, v) == IF res[r] = Unresolved THEN [res EXCEPT ![r] = v] ELSE res

\* the `existing` branch of waitForApproval: clearTimeout + resolve(null)
SupersedeTimer(tm, old) == IF old = 0 THEN tm ELSE [tm EXCEPT ![old] = FALSE]
\* mutant: the stale request is left unresolved
SupersedeResultKeep(res, old) == res
SupersedeResult(res, old) == IF old = 0 THEN res ELSE Resolve(res, old, Null)

\* waitForApproval(chatId, adapter, message): up to the await of sendMessage
WaitForApproval(c) ==
  /\ nextReq <= MaxReq
  /\ LET r == nextReq
         existing == pendingApprovals[c]
     IN /\ reqTimer' = [SupersedeTimer(reqTimer, existing) EXCEPT ![r] = TRUE]
        /\ reqResult' = SupersedeResult(reqResult, existing)
        /\ pendingApprovals' = [pendingApprovals EXCEPT ![c] = r]
        /\ reqChat' = [reqChat EXCEPT ![r] = c]
        /\ reqSend' = [reqSend EXCEPT ![r] = "inflight"]
        /\ nextReq' = nextReq + 1
  /\ UNCHANGED <<runnerVars, providerVars, cronVars, adapterVars, commandVars, streamVars>>

\* adapter.sendMessage(chatId, message) of the prompt resolves
ApprovalSendOk(r) ==
  /\ reqSend[r] = "inflight"
  /\ reqSend' = [reqSend EXCEPT ![r] = "done"]
  /\ UNCHANGED <<pendingApprovals, reqChat, reqResult, reqTimer, nextReq>>
  /\ UNCHANGED <<runnerVars, providerVars, cronVars, adapterVars, commandVars, streamVars>>

\* ... or rejects: the catch block of waitForApproval
ApprovalSendFail(r) ==
  /\ reqSend[r] = "inflight"
  /\ reqSend' = [reqSend EXCEPT ![r] = "done"]
  /\ reqTimer' = [reqTimer EXCEPT ![r] = FALSE]
  /\ pendingApprovals' = [pendingApprovals EXCEPT ![reqChat[r]] = 0]
  /\ reqResult' = Resolve(reqResult, r, Null)
  /\ UNCHANGED <<reqChat, nextReq>>
  /\ UNCHANGED <<runnerVars, providerVars, cronVars, adapterVars, commandVars, streamVars>>

\* mutant: the deadline removes the record without resolving the promise
ApprovalTimeoutSilent(r) ==
  /\ reqTimer[r]
  /\ reqTimer' = [reqTimer EXCEPT ![r] = FALSE]
  /\ pendingApprovals' = [pendingApprovals EXCEPT ![reqChat[r]] = 0]
  /\ UNCHANGED <<reqChat, reqResult, reqSend, nextReq>>
  /\ UNCHANGED <<runnerVars, providerVars, cronVars, adapterVars, commandVars, streamVars>>

\* the setTimeout callback of waitForApproval
ApprovalTimeout(r) ==
  /\ reqTimer[r]
  /\ reqTimer' = [reqTimer EXCEPT ![r] = FALSE]
  /\ pendingApprovals' = [pendingApprovals EXCEPT ![reqChat[r]] = 0]
  /\ reqResult' = Resolve(reqResult, r, Null)
  /\ UNCHANGED <<reqChat, reqSend, nextReq>>
  /\ UNCHANGED <<runnerVars, providerVars, cronVars, adapterVars, commandVars, streamVars>>

\* mutant: the reply does not cancel the deadline timer
ResolvePendingKeepTimer(c, text) ==
  LET r == pendingApprovals[c]
  IN /\ pendingApprovals' = [pendingApprovals EXCEPT ![c] = 0]
     /\ reqResult' = Resolve(reqResult, r, text)
     /\ UNCHANGED <<reqTimer, reqChat, reqSend, nextReq>>

\* the pending-approval branch of the inbound message handler
ResolvePending(c, text) ==
  LET r == pendingApprovals[c]
  IN /\ reqTimer' = [reqTimer EXCEPT ![r] = FALSE]
     /\ pendingApprovals' = [pendingApprovals EXCEPT ![c] = 0]
     /\ reqResult' = Resolve(reqResult, r, text)
     /\ UNCHANGED <<reqChat, reqSend, nextReq>>

SelectionPending(c) == pendingModelSelect[c] # 0 \/ pendingProviderSelect[c] # 0

\* mutant: the provider selection is looked up before the model selection
HandlePendingReplyProviderFirst(c, text) ==
  /\ IF pendingProviderSelect[c] # 0
     THEN /\ pendingProviderSelect' = [pendingProviderSelect EXCEPT ![c] = 0]
          /\ UNCHANGED pendingModelSelect
          /\ SettleSelection(pendingProviderSelect[c], text)
     ELSE /\ pendingModelSelect' = [pendingModelSelect EXCEPT ![c] = 0]
          /\ UNCHANGED pendingProviderSelect
          /\ SettleSelection(pendingModelSelect[c], text)
  /\ UNCHANGED <<selChat, selKind, selInst, selCurrent, selTimer, nextSel>>

\* commandHandler.handlePendingReply(text, chatId), taken when it returns true
HandlePendingReply(c, text) ==
  /\ IF pendingModelSelect[c] # 0
     THEN /\ pendingModelSelect' = [pendingModelSelect EXCEPT ![c] = 0]
          /\ UNCHANGED pendingProviderSelect
          /\ SettleSelection(pendingModelSelect[c], text)
     ELSE /\ pendingProviderSelect' = [pendingProviderSelect EXCEPT ![c] = 0]
          /\ UNCHANGED pendingModelSelect
          /\ SettleSelection(pendingProviderSelect[c], text)
  /\ UNCHANGED <<selChat, selKind, selInst, selCurrent, selTimer, nextSel>>

\* commandHandler.execute(...) for a text it handles, else enqueueRun
ExecuteOrEnqueue(c, text) ==
  CASE Command(text) \in {"new", "reset"} ->
         /\ HandleReset(SessionKey(c))
         /\ UNCHANGED <<runnerVars, commandVars, pKind, currentModel, inst, retired>>
    [] Command(text) \in {"status", "memory", "queue", "help"} ->
         UNCHANGED <<runnerVars, providerVars, commandVars, pKind, currentModel, inst, retired>>
    [] Command(text) = "stop" ->
         /\ HandleStop(SessionKey(c))
         /\ UNCHANGED <<pKind, currentModel, inst, retired>>
    [] Command(text) = "model" ->
         /\ IF Args(text) # ""
            THEN HandleModelArg(Args(text))
                 /\ UNCHANGED <<pendingModelSelect, pendingProviderSelect, selVars>>
            ELSE StartSelection(c, "model")
         /\ UNCHANGED <<runnerVars, signalled, lastStop>>
    [] Command(text) = "provider" ->
         /\ IF Args(text) # ""
            THEN HandleProviderArg(Args(text))
                 /\ UNCHANGED <<pendingModelSelect, pendingProviderSelect, selVars>>
            ELSE StartSelection(c, "provider")
         /\ UNCHANGED <<runnerVars, signalled, lastStop>>
    [] OTHER ->
         /\ EnqueueRun(SessionKey(c))
         /\ UNCHANGED <<commandVars, pKind, currentModel, inst, retired>>

\* mutant: no `return` after resolving the approval: the reply is also
\* handled as a command or enqueued as a run
OnMessageFallThrough(c, text) ==
  IF pendingApprovals[c] # 0
  THEN /\ ResolvePending(c, text)
       /\ ExecuteOrEnqueue(c, text)
       /\ UNCHANGED <<cronVars, adapterVars, queryVars>>
  ELSE IF SelectionPending(c)
  THEN /\ HandlePendingReply(c, text)
       /\ UNCHANGED <<runnerVars, signalled, cronVars, adapterVars, lastStop, approvalVars, queryVars>>
  ELSE /\ ExecuteOrEnqueue(c, text)
       /\ UNCHANGED <<cronVars, adapterVars, approvalVars, queryVars>>

\* ------------------------------------------------- inbound message handler
\* adapter.onMessage(async (message) => ...)
OnMessage(c, text) ==
  IF pendingApprovals[c] # 0
  THEN /\ ResolvePending(c, text)
       /\ UNCHANGED <<runnerVars, providerVars, cronVars, adapterVars, commandVars, streamVars>>
  ELSE IF SelectionPending(c)
  THEN /\ HandlePendingReply(c, text)
       /\ UNCHANGED <<runnerVars, signalled, cronVars, adapterVars, lastStop, approvalVars, queryVars>>
  ELSE /\ ExecuteOrEnqueue(c, text)
       /\ UNCHANGED <<cronVars, adapterVars, approvalVars, queryVars>>

\* ------------------------------------------------------ WhatsApp adapter
\* jid.endsWith('@g.us')
IsGroup(jid) == jid[1] = "group"

\* this.lidToPhone.get(chatId) || this.phoneToLid.get(chatId)
AltOf(chatId) ==
  IF chatId \in Lids /\ lidToPhone[chatId] # None THEN lidToPhone[chatId]
  ELSE IF chatId \in Phones /\ phoneToLid[chatId] # None THEN phoneToLid[chatId]
  ELSE None

\* mutant: every direct message passes
IsAllowedDMOpen(chatId, allowedDMs) == TRUE

\* _isAllowedDM(chatId, allowedDMs)
IsAllowedDM(chatId, allowedDMs) ==
  \/ Star \in allowedDMs
  \/ chatId \in allowedDMs
  \/ AltOf(chatId) # None /\ AltOf(chatId) \in allowedDMs

\* the group branch of the early bail-out
IsAllowedGroup(jid, allowedGroups) ==
  /\ allowedGroups # {}
  /\ Star \in allowedGroups \/ jid \in allowedGroups

\* mentionedJid lists of a message: none, or one contact's phone JID or LID
Mentions == {{}} \cup {{x} : x \in Phones \cup Lids}

\* what a message carries: nothing the adapter reads, text, or an image
\* without caption
Contents == {"none", "text", "image"}

\* this.myJid and this.myLid (contact 1), set when the connection opens
MyJids == IF waConnected THEN {Phone(1), Lid(1)} ELSE {}

\* isMentioned: some mentioned JID has the bot's number or LID number
IsMentioned(mentions) == \E m \in mentions : m \in MyJids

\* the gate left open
MentionGateOpen(jid, mentions) == TRUE

\* group mention-only gating: FALSE is the early return
MentionGate(jid, mentions) ==
  ~(IsGroup(jid) /\ waMentionsOnly /\ ~IsMentioned(mentions))

\* handleMessage(msg) gets past the checks made before the image is looked
\* at.  fromMe/echo: the message is the echo of one the bot sent
PassesChecks(jid, fromMe, echo, mentions) ==
  /\ ~(fromMe /\ echo)
  /\ IF IsGroup(jid) THEN IsAllowedGroup(jid, waAllowedGroups)
                     ELSE IsAllowedDM(jid, waAllowedDMs)
  /\ MentionGate(jid, mentions)

\* handleMessage(msg) reaches emitMessage: an image without caption gets the
\* text '[Image]', a message with neither text nor image is dropped
Emits(jid, fromMe, echo, mentions, content) ==
  /\ PassesChecks(jid, fromMe, echo, mentions)
  /\ content # "none"

\* handleMessage(msg)
WaHandleMessage(jid, fromMe, echo, mentions, content) ==
  /\ Len(waEmitted) < MaxWaMsgs
  /\ waDownloads' = IF PassesChecks(jid, fromMe, echo, mentions) /\ content = "image"
                    THEN waDownloads + 1 ELSE waDownloads
  /\ waEmitted' = IF Emits(jid, fromMe, echo, mentions, content)
                  THEN Append(waEmitted,
                         [chatId |-> jid, isGroup |-> IsGroup(jid),
                          mentions |-> IF IsMentioned(mentions) THEN {"self"} ELSE mentions,
                          image |-> content = "image",
                          raw |-> mentions])
                  ELSE waEmitted
  /\ UNCHANGED <<waAllowedDMs, waAllowedGroups, waMentionsOnly, waConnected,
                 lidToPhone, phoneToLid, waSent>>
  /\ UNCHANGED <<runnerVars, providerVars, cronVars, commandVars, approvalVars, streamVars, termVars,
                 handlerVars>>

\* _mapContact(phoneJid, lidJid), from the contacts events
WaMapContact(ph, l) ==
  /\ lidToPhone' = [lidToPhone EXCEPT ![l] = ph]
  /\ phoneToLid' = [phoneToLid EXCEPT ![ph] = l]
  /\ UNCHANGED <<waAllowedDMs, waAllowedGroups, waMentionsOnly, waConnected,
                 waEmitted, waSent, waDownloads>>
  /\ UNCHANGED <<runnerVars, providerVars, cronVars, commandVars, approvalVars, streamVars, termVars,
                 handlerVars>>

\* connection 'open': the bot's own phone JID and LID (contact 1) are allowed
\* unless everything is, and mapped to each other
WaConnect ==
  /\ ~waConnected
  /\ waConnected' = TRUE
  /\ waAllowedDMs' = IF Star \in waAllowedDMs THEN waAllowedDMs
                     ELSE waAllowedDMs \cup {Phone(1), Lid(1)}
  /\ lidToPhone' = [lidToPhone EXCEPT ![Lid(1)] = Phone(1)]
  /\ phoneToLid' = [phoneToLid EXCEPT ![Phone(1)] = Lid(1)]
  /\ UNCHANGED <<waAllowedGroups, waMentionsOnly, waEmitted, waSent, waDownloads>>
  /\ UNCHANGED <<runnerVars, providerVars, cronVars, commandVars, approvalVars, streamVars, termVars,
                 handlerVars>>

\* _resolveAllowlist(): sock.onWhatsApp(num) reports the LID of an
\* allowlisted, still unmapped number
WaResolveAllowlist(ph, l) ==
  /\ waConnected
  /\ ph \in waAllowedDMs
  /\ Star \notin waAllowedDMs
  /\ phoneToLid[ph] = None
  /\ lidToPhone' = [lidToPhone EXCEPT ![l] = ph]
  /\ phoneToLid' = [phoneToLid EXCEPT ![ph] = l]
  /\ waAllowedDMs' = waAllowedDMs \cup {l}
  /\ UNCHANGED <<waAllowedGroups, waMentionsOnly, waConnected, waEmitted, waSent, waDownloads>>
  /\ UNCHANGED <<runnerVars, providerVars, cronVars, commandVars, approvalVars, streamVars, termVars,
                 handlerVars>>

\* sendMessage(chatId, text): sock.sendMessage is called
WaSendMessage ==
  /\ waSent < MaxWaSent
  /\ waSent' = waSent + 1
  /\ UNCHANGED <<waAllowedDMs, waAllowedGroups, waMentionsOnly, waConnected,
                 lidToPhone, phoneToLid, waEmitted, waDownloads>>
  /\ UNCHANGED <<runnerVars, providerVars, cronVars, commandVars, approvalVars, streamVars, termVars,
                 handlerVars>>

\* ------------------------------------------------- cron execute handler
\* mutant: the message of a direct job is handed to the agent as well
CronExecuteAlwaysAgent(j, key, invokeAgent, hasAdapter, chat, message) ==
  /\ j \in cronJobs
  /\ cronExec[j].state = "idle"
  /\ IF ~hasAdapter
     THEN /\ cronLog' = [cronLog EXCEPT ![j] = "no adapter"]
          /\ UNCHANGED <<cronExec, providerVars>>
     ELSE LET k == CronSessionKey(key, j)
          IN /\ cronExec' = [cronExec EXCEPT ![j] =
                   [state |-> "running", key |-> k, chatId |-> chat, text |-> ""]]
             /\ abortControllers' = QueryStart(k, CronExec(j), abortControllers)
             /\ sessions' = QuerySession(k, CronExec(j), sessions)
             /\ UNCHANGED sessVars
             /\ UNCHANGED <<signalled, cronLog>>
  /\ UNCHANGED <<cronJobs, cronEscaped, schedVars>>
  /\ UNCHANGED <<runnerVars, commandVars, approvalVars, streamVars, adapterVars>>

\* the execute handler up to its first await, on the event of a fire
CronHandle(j, key, invokeAgent, hasAdapter, chat, message) ==
  /\ cronExec[j].state = "idle"
  /\ IF ~hasAdapter
     THEN /\ cronLog' = [cronLog EXCEPT ![j] = "no adapter"]
          /\ UNCHANGED <<cronExec, providerVars>>
     ELSE IF invokeAgent
     THEN LET k == CronSessionKey(key, j)
          IN /\ cronExec' = [cronExec EXCEPT ![j] =
                   [state |-> "running", key |-> k, chatId |-> chat, text |-> ""]]
             /\ abortControllers' = QueryStart(k, CronExec(j), abortControllers)
             /\ sessions' = QuerySession(k, CronExec(j), sessions)
             /\ UNCHANGED sessVars
             /\ UNCHANGED <<signalled, cronLog>>
     ELSE /\ cronExec' = [cronExec EXCEPT ![j] =
                [state |-> "sending", key |-> 0, chatId |-> chat, text |-> message]]
          /\ UNCHANGED <<providerVars, cronLog>>
  /\ UNCHANGED cronEscaped
  /\ UNCHANGED <<runnerVars, commandVars, approvalVars, streamVars, adapterVars>>

\* cronScheduler.on('execute', ...): a fire event of a job the scheduler holds
CronExecute(j, key, invokeAgent, hasAdapter, chat, message) ==
  /\ j \in cronJobs
  /\ CronHandle(j, key, invokeAgent, hasAdapter, chat, message)
  /\ UNCHANGED <<cronJobs, schedVars>>

\* mutant: no try/catch around the awaits: a rejection leaves the handler
CronFailedUncaught(j, log, escaped) ==
  [cronLog |-> log, cronEscaped |-> TRUE]

\* catch (err) { console.error(..., err.message) }: [cronLog, cronEscaped]
CronFailed(j, log, escaped) ==
  [cronLog |-> [log EXCEPT ![j] = "failed"], cronEscaped |-> escaped]

\* agent.runAndCollect(...) returns (a response or nothing) or throws
CronAgentEnd(j, outcome) ==
  /\ cronExec[j].state = "running"
  /\ abortControllers' = QueryEnd(cronExec[j].key, abortControllers)
  /\ signalled' = signalled \ {CronExec(j)}
  /\ cronExec' = [cronExec EXCEPT ![j] =
        IF outcome = "response"
        THEN [state |-> "sending", key |-> 0, chatId |-> @.chatId, text |-> AgentResponse]
        ELSE IdleCron]
  /\ IF outcome = "throw"
     THEN /\ cronLog' = CronFailed(j, cronLog, cronEscaped).cronLog
          /\ cronEscaped' = CronFailed(j, cronLog, cronEscaped).cronEscaped
     ELSE UNCHANGED <<cronLog, cronEscaped>>
  /\ UNCHANGED <<cronJobs, schedVars, sessions, sessVars, runnerVars, commandVars, approvalVars, streamVars, adapterVars>>

\* adapter.sendMessage(chatId, ...) of the handler resolves or rejects
CronSendEnd(j, outcome) ==
  /\ cronExec[j].state = "sending"
  /\ cronExec' = [cronExec EXCEPT ![j] = IdleCron]
  /\ IF outcome = "throw"
     THEN /\ cronLog' = CronFailed(j, cronLog, cronEscaped).cronLog
          /\ cronEscaped' = CronFailed(j, cronLog, cronEscaped).cronEscaped
     ELSE UNCHANGED <<cronLog, cronEscaped>>
  /\ UNCHANGED <<cronJobs, schedVars, runnerVars, providerVars, commandVars, approvalVars, streamVars, adapterVars>>

\* ------------------------------------------------------------ scheduler
\* mutant: the one-shot job is dropped from memory but stays in the store
AfterFireKeepOnce(j, store, t) ==
  IF store[j].kind = "once" THEN store
  ELSE [store EXCEPT ![j].next = NextMatch(t)]

\* mutant: the next fire time of a recurring job is the time it fired
AfterFireSameTime(j, store, t) ==
  IF store[j].kind = "once" THEN [store EXCEPT ![j] = NoJob]
  ELSE [store EXCEPT ![j].next = t]

\* the persisted store after job j fired at time t: a one-shot job is
\* deleted, a recurring job gets its next fire time
AfterFire(j, store, t) ==
  IF store[j].kind = "once" THEN [store EXCEPT ![j] = NoJob]
  ELSE [store EXCEPT ![j].next = NextMatch(t)]

\* what the scheduler holds in memory for a store
Loaded(store) == {j \in Jobs : store[j] # NoJob}

\* the scheduling tool call of a run: a new job, one-shot (due at t) or
\* recurring, is added and persisted
ScheduleJob(j, kind, t) ==
  /\ j \notin jobIds
  /\ jobIds' = jobIds \cup {j}
  /\ jobStore' = [jobStore EXCEPT ![j] =
        [kind |-> kind, next |-> IF kind = "once" THEN t ELSE NextMatch(now)]]
  /\ cronJobs' = cronJobs \cup {j}
  /\ UNCHANGED <<now, jobFires, bootFires, cronExec, cronLog, cronEscaped>>
  /\ UNCHANGED <<runnerVars, providerVars, commandVars, approvalVars, streamVars, adapterVars>>

\* cancellation: the job leaves the memory and the store
CancelJob(j) ==
  /\ j \in cronJobs
  /\ cronJobs' = cronJobs \ {j}
  /\ jobStore' = [jobStore EXCEPT ![j] = NoJob]
  /\ UNCHANGED <<jobIds, now, jobFires, bootFires, cronExec, cronLog, cronEscaped>>
  /\ UNCHANGED <<runnerVars, providerVars, commandVars, approvalVars, streamVars, adapterVars>>

\* time passes
Tick ==
  /\ now < MaxTime
  /\ now' = now + 1
  /\ UNCHANGED <<jobStore, jobIds, jobFires, bootFires, cronExec, cronLog, cronJobs, cronEscaped>>
  /\ UNCHANGED <<runnerVars, providerVars, commandVars, approvalVars, streamVars, adapterVars>>

\* a job the scheduler holds is due: the event is emitted (its consumer
\* runs up to its first await) and the store is brought up to date
SchedulerFire(j, invokeAgent, hasAdapter) ==
  /\ j \in cronJobs
  /\ jobStore[j].next <= now
  /\ jobFires[j] < MaxFires
  /\ CronHandle(j, 0, invokeAgent, hasAdapter, 1, "ping")
  /\ jobFires' = [jobFires EXCEPT ![j] = @ + 1]
  /\ jobStore' = AfterFire(j, jobStore, now)
  /\ cronJobs' = IF jobStore[j].kind = "once" THEN cronJobs \ {j} ELSE cronJobs
  /\ UNCHANGED <<jobIds, now, bootFires>>

\* the process restarts: what was in memory is gone, the persisted jobs
\* are loaded and the next fire time of each recurring job is computed
Restart ==
  /\ cronJobs' = Loaded(jobStore)
  /\ jobStore' = [j \in Jobs |->
        IF jobStore[j].kind = "cron"
        THEN [jobStore[j] EXCEPT !.next = IF @ <= now THEN NextMatch(now) ELSE @]
        ELSE jobStore[j]]
  /\ cronExec' = [j \in Jobs |-> IdleCron]
  /\ cronLog' = [j \in Jobs |-> ""]
  /\ abortControllers' = [k \in AllKeys |-> None]
  /\ signalled' = {}
  /\ sessions' = [k \in AllKeys |-> None]
  /\ agentSessions' = {}
  /\ registry' = {}
  /\ bootFires' = jobFires
  /\ UNCHANGED <<jobIds, now, jobFires, cronEscaped>>
  /\ UNCHANGED <<runnerVars, commandVars, approvalVars, streamVars, adapterVars>>

\* ------------------------------------------------ provider query streams
otherVars == <<runnerVars, cronVars, adapterVars, pendingModelSelect, pendingProviderSelect,
               selVars, currentModel, approvalVars>>

Chunks(q) == Cardinality({i \in 1..Len(qEvents[q]) : qEvents[q][i] = "chunk"})
Yield(q, e) == [qEvents EXCEPT ![q] = Append(@, e)]
Aborted(q) == QExec(q) \in signalled       \* abortController.signal.aborted

\* the query runs on the instance agent.provider refers to; a query started
\* before a provider switch goes on with the instance it was started on
Live(q) == qInst[q] = inst

\* `this.sessions` of the instance query q runs on
StoreOf(q) == IF Live(q) THEN sessions ELSE retired[qInst[q]]

\* mutant: the stored token is not looked up, every query opens a session
SessionFresh(q, k, ses) == QExec(q)

\* the session query q talks in: the token stored for its key (Claude:
\* queryOptions.resume, Opencode: sessionId), else a session of its own
SessionOf(q, k, ses) ==
  IF GetSession(k, ses) # None THEN GetSession(k, ses) ELSE QExec(q)

\* this.setSession(chatId, t) on the instance of query q
StoreSession(q, t) ==
  IF Live(q)
  THEN /\ sessions' = SetSession(qKey[q], t, sessions)
       /\ UNCHANGED <<retired, sessVars>>
  ELSE /\ retired' = [retired EXCEPT ![qInst[q]] = SetSession(qKey[q], t, @)]
       /\ UNCHANGED <<sessions, sessVars>>

\* this.abortControllers of the instance of query q; the map of a replaced
\* instance is never read again (abort goes to agent.provider)
Controllers(q, ctl) == IF Live(q) THEN ctl ELSE abortControllers

\* query(params) is called and pulled for the first time.  Claude reads the
\* stored token and stores the controller at once; Opencode first awaits
\* initialize() and the MCP registration
PQueryStart(q, k) ==
  /\ qPc[q] = "idle"
  /\ \A p \in QueryIds : p < q => qPc[p] # "idle"
  /\ qKey' = [qKey EXCEPT ![q] = k]
  /\ qKind' = [qKind EXCEPT ![q] = pKind]
  /\ qInst' = [qInst EXCEPT ![q] = inst]
  /\ IF pKind = "claude"
     THEN /\ qPc' = [qPc EXCEPT ![q] = "stream"]
          /\ qSession' = [qSession EXCEPT ![q] = SessionOf(q, k, sessions)]
          /\ abortControllers' = QueryStart(k, QExec(q), abortControllers)
     ELSE /\ qPc' = [qPc EXCEPT ![q] = "init"]
          /\ UNCHANGED <<abortControllers, qSession>>
  /\ UNCHANGED <<signalled, sessions, sessVars, retired, lastStop, pKind, inst, qEvents, otherVars>>

\* Opencode: initialize() returned; the stored token is read, the controller
\* is stored, the try begins
OcInitialized(q) ==
  /\ qPc[q] = "init"
  /\ qPc' = [qPc EXCEPT ![q] = "setup"]
  /\ qSession' = [qSession EXCEPT ![q] = SessionOf(q, qKey[q], StoreOf(q))]
  /\ abortControllers' =
       Controllers(q, QueryStart(qKey[q], QExec(q), abortControllers))
  /\ UNCHANGED <<signalled, sessions, sessVars, retired, lastStop, pKind, inst, qKey, qKind,
                 qInst, qEvents, otherVars>>

\* Opencode: initialize() threw, outside the try: the generator throws
OcInitFailed(q) ==
  /\ qPc[q] = "init"
  /\ qPc' = [qPc EXCEPT ![q] = "ended"]
  /\ qEvents' = Yield(q, "throw")
  /\ UNCHANGED <<providerVars, retired, lastStop, pKind, inst, qKey, qKind, qInst,
                 qSession, otherVars>>

\* Opencode: session.create (when no token was stored), event.subscribe and
\* promptAsync succeeded
OcSetupDone(q) ==
  /\ qPc[q] = "setup"
  /\ qPc' = [qPc EXCEPT ![q] = "stream"]
  /\ IF qSession[q] = QExec(q)
     THEN StoreSession(q, QExec(q))
     ELSE UNCHANGED <<sessions, sessVars, retired>>
  /\ UNCHANGED <<abortControllers, signalled, lastStop, pKind, inst, qKey, qKind,
                 qInst, qSession, qEvents, otherVars>>

\* Opencode: one of them threw: catch, yield { type: 'error' }; `created`
\* tells whether session.create had succeeded before
OcSetupFailed(q, created) ==
  /\ qPc[q] = "setup"
  /\ qPc' = [qPc EXCEPT ![q] = "final"]
  /\ qEvents' = Yield(q, "error")
  /\ IF created /\ qSession[q] = QExec(q)
     THEN StoreSession(q, QExec(q))
     ELSE UNCHANGED <<sessions, sessVars, retired>>
  /\ UNCHANGED <<abortControllers, signalled, lastStop, pKind, inst, qKey, qKind,
                 qInst, qSession, otherVars>>

\* Opencode: the subscription delivers the next event to the for-await loop
OcEvent(q, ev) ==
  /\ qPc[q] = "stream"
  /\ qKind[q] = "opencode"
  /\ IF Aborted(q)
     THEN /\ qEvents' = Yield(q, "aborted")
          /\ qPc' = [qPc EXCEPT ![q] = "final"]
     ELSE CASE ev = "part" ->
                 /\ Chunks(q) < MaxChunks
                 /\ qEvents' = Yield(q, "chunk")
                 /\ UNCHANGED qPc
            [] ev = "idle" ->
                 /\ qEvents' = Yield(q, "done")
                 /\ qPc' = [qPc EXCEPT ![q] = "final"]
            [] ev = "error" ->
                 /\ qEvents' = Yield(q, "error")
                 /\ qPc' = [qPc EXCEPT ![q] = "after_error"]
  /\ UNCHANGED <<providerVars, retired, lastStop, pKind, inst, qKey, qKind, qInst,
                 qSession, otherVars>>

\* Opencode: resumed after the yield of the session.error event: break, then
\* the yield that follows the loop
OcAfterError(q) ==
  /\ qPc[q] = "after_error"
  /\ qEvents' = Yield(q, IF Aborted(q) THEN "aborted" ELSE "done")
  /\ qPc' = [qPc EXCEPT ![q] = "final"]
  /\ UNCHANGED <<providerVars, retired, lastStop, pKind, inst, qKey, qKind, qInst,
                 qSession, otherVars>>

\* Opencode: the event stream itself throws: catch, yield { type: 'error' }
OcStreamFailed(q) ==
  /\ qPc[q] = "stream"
  /\ qKind[q] = "opencode"
  /\ qPc' = [qPc EXCEPT ![q] = "final"]
  /\ qEvents' = Yield(q, "error")
  /\ UNCHANGED <<providerVars, retired, lastStop, pKind, inst, qKey, qKind, qInst,
                 qSession, otherVars>>

\* Claude: the SDK yields a chunk; on the system init chunk the session id
\* it reports is stored: the resumed session or a session of the query's own
ClaudeChunk(q, c) ==
  /\ qPc[q] = "stream"
  /\ qKind[q] = "claude"
  /\ ~Aborted(q)
  /\ IF c = "init"
     THEN /\ \E t \in {qSession[q], QExec(q)} : StoreSession(q, t)
          /\ UNCHANGED qEvents
     ELSE /\ Chunks(q) < MaxChunks
          /\ qEvents' = Yield(q, "chunk")
          /\ UNCHANGED <<sessions, sessVars, retired>>
  /\ UNCHANGED <<abortControllers, signalled, lastStop, pKind, inst, qPc, qKey,
                 qKind, qInst, qSession, otherVars>>

\* Claude: the SDK stream is exhausted: yield { type: 'done' }
ClaudeEnd(q) ==
  /\ qPc[q] = "stream"
  /\ qKind[q] = "claude"
  /\ ~Aborted(q)
  /\ qEvents' = Yield(q, "done")
  /\ qPc' = [qPc EXCEPT ![q] = "final"]
  /\ UNCHANGED <<providerVars, retired, lastStop, pKind, inst, qKey, qKind, qInst,
                 qSession, otherVars>>

\* Claude: the SDK throws something else than AbortError: rethrown, finally
ClaudeThrows(q) ==
  /\ qPc[q] = "stream"
  /\ qKind[q] = "claude"
  /\ ~Aborted(q)
  /\ qEvents' = Yield(q, "throw")
  /\ qPc' = [qPc EXCEPT ![q] = "ended"]
  /\ abortControllers' = Controllers(q, QueryEnd(qKey[q], abortControllers))
  /\ UNCHANGED <<signalled, sessions, sessVars, retired, lastStop, pKind, inst, qKey, qKind,
                 qInst, qSession, otherVars>>

\* Claude: the SDK, given the aborted signal, throws AbortError:
\* yield { type: 'aborted' }
ClaudeAbortError(q) ==
  /\ qPc[q] = "stream"
  /\ qKind[q] = "claude"
  /\ Aborted(q)
  /\ qEvents' = Yield(q, "aborted")
  /\ qPc' = [qPc EXCEPT ![q] = "final"]
  /\ UNCHANGED <<providerVars, retired, lastStop, pKind, inst, qKey, qKind, qInst,
                 qSession, otherVars>>

\* the consumer pulls after the last yield: the finally block runs
QueryFinally(q) ==
  /\ qPc[q] = "final"
  /\ qPc' = [qPc EXCEPT ![q] = "ended"]
  /\ abortControllers' = Controllers(q, QueryEnd(qKey[q], abortControllers))
  /\ UNCHANGED <<signalled, sessions, sessVars, retired, lastStop, pKind, inst, qKey, qKind,
                 qInst, qSession, qEvents, otherVars>>

\* /stop for the key while the provider is at work
StopQuery(k) ==
  /\ HandleStop(k)
  /\ UNCHANGED <<cronVars, adapterVars, approvalVars, streamVars>>

\* ------------------------------------------- Opencode event normalisation
SnapChars == {"a", "b"}
Snapshots == UNION {[1..n -> SnapChars] : n \in 0..MaxSnap}

\* the `part` of a message.part.updated event of the query's session
OcParts ==
  {[type |-> ty, id |-> p, messageID |-> PartMsg[p], text |-> s, status |-> st] :
     ty \in {"text", "reasoning", "tool", "tool-result"}, p \in PartIds,
     s \in Snapshots, st \in {"", "pending", "running", "completed"}}

\* the events the backend sends: text and reasoning parts carry a snapshot,
\* tool invocations a state, tool results refer to an invocation
BackendParts ==
  {e \in OcParts :
     /\ PartType[e.id] # "tool" => e.type = PartType[e.id]
     /\ PartType[e.id] = "tool" => e.type \in {"tool", "tool-result"}
     /\ e.type = "tool" <=> e.status # ""
     /\ e.type \in {"tool", "tool-result"} => e.text = <<>>}

\* mutant: the whole snapshot is yielded again
DeltaWhole(fullText, prevLength) == fullText

\* fullText.slice(prevLength)
Delta(fullText, prevLength) == SubSeq(fullText, prevLength + 1, Len(fullText))

\* mutant: every update of a tool invocation that is not pending is announced
AnnouncesRepeated(toolId, st, yielded) == st # "pending"

\* the two `continue` guards of the tool-invocation branch
Announces(toolId, st, yielded) == toolId \notin yielded /\ st # "pending"

\* the text or reasoning branch: a delta when the snapshot is longer than
\* what was yielded of the part
OcYieldDelta(part) ==
  /\ IF Len(part.text) > lastYieldedLength[part.id]
     THEN /\ ocYielded' = Append(ocYielded,
                 [type |-> "delta", part |-> part.id,
                  text |-> Delta(part.text, lastYieldedLength[part.id]),
                  isReasoning |-> part.type = "reasoning"])
          /\ lastYieldedLength' = [lastYieldedLength EXCEPT ![part.id] = Len(part.text)]
     ELSE UNCHANGED <<ocYielded, lastYieldedLength>>
  /\ ocSnapshot' = [ocSnapshot EXCEPT ![part.id] = part.text]
  /\ ocExtends' = [ocExtends EXCEPT ![part.id] =
                     /\ @
                     /\ Len(part.text) >= Len(ocSnapshot[part.id])
                     /\ SubSeq(part.text, 1, Len(ocSnapshot[part.id])) = ocSnapshot[part.id]]
  /\ UNCHANGED <<userMessageId, yieldedToolCalls, ocStates>>

\* the tool-invocation branch
OcYieldTool(part) ==
  /\ IF Announces(part.id, part.status, yieldedToolCalls)
     THEN /\ yieldedToolCalls' = yieldedToolCalls \cup {part.id}
          /\ ocYielded' = Append(ocYielded,
                 [type |-> "tool_use", part |-> part.id, text |-> <<>>,
                  isReasoning |-> FALSE])
     ELSE UNCHANGED <<yieldedToolCalls, ocYielded>>
  /\ ocStates' = [ocStates EXCEPT ![part.id] = Append(@, part.status)]
  /\ UNCHANGED <<userMessageId, lastYieldedLength, ocSnapshot, ocExtends>>

\* the tool-result branch
OcYieldResult(part) ==
  /\ ocYielded' = Append(ocYielded,
         [type |-> "tool_result", part |-> part.id, text |-> <<>>, isReasoning |-> FALSE])
  /\ UNCHANGED <<userMessageId, lastYieldedLength, yieldedToolCalls, ocSnapshot, ocExtends,
                 ocStates>>

LoopFrame ==
  UNCHANGED <<runnerVars, providerVars, cronVars, commandVars, approvalVars, streamVars,
              waAllowedDMs, waAllowedGroups, waMentionsOnly, waConnected, lidToPhone,
              phoneToLid, waEmitted, waSent, waDownloads, termVars, hPc, hText, hRun,
              hReact, hCaught, hFailed, hApology, hasTyping, hasStop, hasReact,
              startVars, echoVars, chatVars>>

\* one pass of the for-await loop over a message.part.updated event; `own`
\* is false for an event that names another session
OcPartUpdated(part, own) ==
  /\ ocRead < MaxOcEvents
  /\ ocRead' = ocRead + 1
  /\ IF ~own
     THEN UNCHANGED <<userMessageId, lastYieldedLength, yieldedToolCalls, ocYielded,
                      ocSnapshot, ocExtends, ocStates>>
     ELSE IF userMessageId = 0 /\ part.type = "text"
     THEN /\ userMessageId' = part.messageID
          /\ UNCHANGED <<lastYieldedLength, yieldedToolCalls, ocYielded, ocSnapshot,
                         ocExtends, ocStates>>
     ELSE IF part.messageID = userMessageId
     THEN UNCHANGED <<userMessageId, lastYieldedLength, yieldedToolCalls, ocYielded,
                      ocSnapshot, ocExtends, ocStates>>
     ELSE IF part.type = "text" /\ part.text # <<>> THEN OcYieldDelta(part)
     ELSE IF part.type = "reasoning" THEN OcYieldDelta(part)
     ELSE IF part.type = "tool" THEN OcYieldTool(part)
     ELSE IF part.type = "tool-result" THEN OcYieldResult(part)
     ELSE UNCHANGED <<userMessageId, lastYieldedLength, yieldedToolCalls, ocYielded,
                      ocSnapshot, ocExtends, ocStates>>
  /\ LoopFrame

NextLoop == \E part \in BackendParts, own \in BOOLEAN : OcPartUpdated(part, own)

SpecLoop == Init /\ [][NextLoop]_vars

\* ------------------------------------------------ terminal chat: runs
ChatKeys == {"h", " ", "Enter", "Backspace", "CtrlC", "ArrowUp"}

ChatFrame ==
  UNCHANGED <<runnerVars, providerVars, cronVars, commandVars, approvalVars, streamVars,
              waAllowedDMs, waAllowedGroups, waMentionsOnly, waConnected, lidToPhone,
              phoneToLid, waEmitted, waSent, waDownloads, termVars, hPc, hText, hRun,
              hReact, hCaught, hFailed, hApology, hasTyping, hasStop, hasReact,
              loopVars, startVars, echoVars>>

\* the runs of the terminal session that have not ended
InFlight(runs) == {r \in 1..MaxTermRuns : runs[r] \in {"streaming", "aborting"}}

\* agent.abort(sessionKey): the runs of the session are signalled; their
\* streams end later
AbortSession(runs) == [r \in 1..MaxTermRuns |-> IF runs[r] = "streaming" THEN "aborting" ELSE runs[r]]

\* handleSubmit(text) for a text that is no command: nothing for a blank
\* text, otherwise the flags are set and agent.run is called
HandleSubmit(text) ==
  IF Trim(text) = <<>>
  THEN UNCHANGED chatVars
  ELSE /\ \E r \in 1..MaxTermRuns :
            /\ tRun[r] = "none"
            /\ \A s \in 1..MaxTermRuns : s < r => tRun[s] # "none"
            /\ tRun' = [tRun EXCEPT ![r] = "streaming"]
       /\ isRunning' = TRUE
       /\ wasInterrupted' = FALSE
       /\ inputBuffer' = <<>>

\* stdin.on('data', key) with no approval and no model menu pending
ChatKey(key) ==
  /\ pendingApprovalResolve = 0
  /\ IF key = "CtrlC"
     THEN IF isRunning
          THEN /\ wasInterrupted' = TRUE
               /\ tRun' = AbortSession(tRun)
               /\ isRunning' = FALSE
               /\ inputBuffer' = <<>>
          ELSE UNCHANGED chatVars
     ELSE IF isRunning THEN UNCHANGED chatVars
     ELSE IF key = "Enter" THEN HandleSubmit(inputBuffer)
     ELSE IF key = "Backspace"
     THEN /\ inputBuffer' = IF inputBuffer # <<>>
                            THEN SubSeq(inputBuffer, 1, Len(inputBuffer) - 1)
                            ELSE inputBuffer
          /\ UNCHANGED <<isRunning, wasInterrupted, tRun>>
     ELSE IF key = "ArrowUp" THEN UNCHANGED chatVars
     ELSE /\ Len(inputBuffer) < MaxBuf
          /\ inputBuffer' = Append(inputBuffer, key)
          /\ UNCHANGED <<isRunning, wasInterrupted, tRun>>
  /\ ChatFrame

\* the stream of agent.run ends or throws: handleSubmit goes on after its
\* try block
ChatStreamEnds(r) ==
  /\ tRun[r] \in {"streaming", "aborting"}
  /\ tRun' = [tRun EXCEPT ![r] = "ended"]
  /\ isRunning' = FALSE
  /\ inputBuffer' = IF wasInterrupted THEN inputBuffer ELSE <<>>
  /\ UNCHANGED wasInterrupted
  /\ ChatFrame

NextChat ==
  \/ \E key \in ChatKeys : ChatKey(key)
  \/ \E r \in 1..MaxTermRuns : ChatStreamEnds(r)

SpecChat == Init /\ [][NextChat]_vars

\* ------------------------------------------ echoes of the bot's messages
EchoFrame ==
  UNCHANGED <<runnerVars, providerVars, cronVars, commandVars, approvalVars, streamVars,
              waAllowedDMs, waAllowedGroups, waMentionsOnly, waConnected, lidToPhone,
              phoneToLid, waSent, waDownloads, termVars, hPc, hText, hRun,
              hReact, hCaught, hFailed, hApology, hasTyping, hasStop, hasReact,
              loopVars, startVars, chatVars>>

\* sendMessage(chatId, text): sock.sendMessage is called and awaited
WaSendBegin(m, jid) ==
  /\ sendState[m] = "none"
  /\ \A n \in 1..MaxEcho : n < m => sendState[n] # "none"
  /\ sendState' = [sendState EXCEPT ![m] = "sending"]
  /\ sendChat' = [sendChat EXCEPT ![m] = jid]
  /\ UNCHANGED <<sentMessageIds, idTimers, echoArrived, echoEmitted, waEmitted>>
  /\ EchoFrame

\* sock.sendMessage resolved: the id of the message is recorded and its
\* 10 s timer is set
WaSendDone(m) ==
  /\ sendState[m] = "sending"
  /\ sendState' = [sendState EXCEPT ![m] = "done"]
  /\ sentMessageIds' = sentMessageIds \cup {m}
  /\ idTimers' = idTimers \cup {m}
  /\ UNCHANGED <<sendChat, echoArrived, echoEmitted, waEmitted>>
  /\ EchoFrame

\* sock.sendMessage rejected: sendMessage rejects, nothing is recorded
WaSendRejected(m) ==
  /\ sendState[m] = "sending"
  /\ sendState' = [sendState EXCEPT ![m] = "failed"]
  /\ UNCHANGED <<sendChat, sentMessageIds, idTimers, echoArrived, echoEmitted, waEmitted>>
  /\ EchoFrame

\* the setTimeout callback of sendMessage
WaIdExpires(m) ==
  /\ m \in idTimers
  /\ idTimers' = idTimers \ {m}
  /\ sentMessageIds' = sentMessageIds \ {m}
  /\ UNCHANGED <<sendState, sendChat, echoArrived, echoEmitted, waEmitted>>
  /\ EchoFrame

\* `this.sentMessageIds.has(msg.key.id)` of handleMessage
IsOwnEcho(id, ids) == id \in ids

\* handleMessage(msg) for the echo of sent message m: fromMe, the id and the
\* chat of the message that was sent, its text
WaEchoArrives(m) ==
  /\ sendState[m] \in {"sending", "done"}
  /\ m \notin echoArrived
  /\ echoArrived' = echoArrived \cup {m}
  /\ IF IsOwnEcho(m, sentMessageIds)
     THEN /\ sentMessageIds' = sentMessageIds \ {m}
          /\ UNCHANGED <<waEmitted, echoEmitted>>
     ELSE /\ UNCHANGED sentMessageIds
          /\ IF Emits(sendChat[m], TRUE, FALSE, {}, "text")
             THEN /\ waEmitted' = Append(waEmitted,
                        [chatId |-> sendChat[m], isGroup |-> IsGroup(sendChat[m]),
                         mentions |-> {}, image |-> FALSE, raw |-> {}])
                  /\ echoEmitted' = echoEmitted \cup {m}
             ELSE UNCHANGED <<waEmitted, echoEmitted>>
  /\ UNCHANGED <<sendState, sendChat, idTimers>>
  /\ EchoFrame

NextEcho ==
  \/ \E m \in 1..MaxEcho, jid \in Phones \cup Groups : WaSendBegin(m, jid)
  \/ \E m \in 1..MaxEcho : WaSendDone(m)
  \/ \E m \in 1..MaxEcho : WaSendRejected(m)
  \/ \E m \in 1..MaxEcho : WaIdExpires(m)
  \/ \E m \in 1..MaxEcho : WaEchoArrives(m)

\* WHATSAPP_ALLOWED_DMS=*, any group allowlist
InitEchoes ==
  /\ InitCore
  /\ InitConfig
  /\ InitJobs
  /\ InitAdapter
  /\ InitCaps
  /\ pKind = "claude"
  /\ waAllowedDMs = {Star}
  /\ waAllowedGroups \in {{}, {Star}}
  /\ waMentionsOnly = FALSE

SpecEcho == InitEchoes /\ [][NextEcho]_vars

\* ------------------------------------------- Opencode provider start-up
\* an Opencode provider with or without a server of its own, with or
\* without MCP servers to register
InitStartup ==
  /\ InitCore
  /\ InitJobs
  /\ InitAdapter
  /\ InitCaps
  /\ pKind = "opencode"
  /\ waAllowedDMs = {Star}
  /\ waAllowedGroups = {}
  /\ waMentionsOnly = FALSE
  /\ useExistingServer \in BOOLEAN
  /\ hasMcpServers \in BOOLEAN

StartFrame ==
  UNCHANGED <<runnerVars, providerVars, cronVars, commandVars, approvalVars, streamVars,
              waAllowedDMs, waAllowedGroups, waMentionsOnly, waConnected, lidToPhone,
              phoneToLid, waEmitted, waSent, waDownloads, termVars, hPc, hText, hRun,
              hReact, hCaught, hFailed, hApology, hasTyping, hasStop, hasReact, loopVars,
              echoVars, chatVars, useExistingServer, hasMcpServers>>

\* `if (this.client) return` of initialize()
ClientSet(cl) == cl # 0

\* where a caller goes on once initialize() has returned
AfterInitialize(kind) == IF kind = "initialize" THEN "ready" ELSE "initialized"

\* initialize() is called, directly or as the first await of query(): it
\* returns when the client is set, creates the client of an existing server
\* in place, or calls createOpencode and awaits it
CallInitialize(c, kind) ==
  /\ iPc[c] = "idle"
  /\ \A d \in QueryIds : d < c => iPc[d] # "idle"
  /\ iKind' = [iKind EXCEPT ![c] = kind]
  /\ IF ClientSet(client)
     THEN /\ iPc' = [iPc EXCEPT ![c] = AfterInitialize(kind)]
          /\ UNCHANGED <<client, clientsCreated>>
     ELSE IF useExistingServer
     THEN /\ iPc' = [iPc EXCEPT ![c] = AfterInitialize(kind)]
          /\ client' = c
          /\ clientsCreated' = clientsCreated + 1
     ELSE /\ iPc' = [iPc EXCEPT ![c] = "creating"]
          /\ clientsCreated' = clientsCreated + 1
          /\ UNCHANGED client
  /\ UNCHANGED <<mcpRegistered, mcpAdded>>
  /\ StartFrame

\* createOpencode resolved: this.client and this.serverInstance are assigned
Created(c) ==
  /\ iPc[c] = "creating"
  /\ iPc' = [iPc EXCEPT ![c] = AfterInitialize(iKind[c])]
  /\ client' = c
  /\ UNCHANGED <<iKind, clientsCreated, mcpRegistered, mcpAdded>>
  /\ StartFrame

\* createOpencode rejected: initialize() logs and rethrows
CreateFailed(c) ==
  /\ iPc[c] = "creating"
  /\ iPc' = [iPc EXCEPT ![c] = "failed"]
  /\ UNCHANGED <<iKind, client, clientsCreated, mcpRegistered, mcpAdded>>
  /\ StartFrame

\* query() after `await this.initialize()`: the MCP servers are registered
\* unless the flag is set or there are none; the first client.mcp.add is
\* called and awaited
RegisterMcpServers(c) ==
  /\ iPc[c] = "initialized"
  /\ IF ~mcpRegistered /\ hasMcpServers
     THEN /\ iPc' = [iPc EXCEPT ![c] = "registering"]
          /\ mcpAdded' = mcpAdded + 1
     ELSE /\ iPc' = [iPc EXCEPT ![c] = "ready"]
          /\ UNCHANGED mcpAdded
  /\ UNCHANGED <<iKind, client, clientsCreated, mcpRegistered>>
  /\ StartFrame

\* the add and connect calls of every server have returned or thrown (a
\* throw is caught per server): the flag is set
McpRegistered(c) ==
  /\ iPc[c] = "registering"
  /\ iPc' = [iPc EXCEPT ![c] = "ready"]
  /\ mcpRegistered' = TRUE
  /\ UNCHANGED <<iKind, client, clientsCreated, mcpAdded>>
  /\ StartFrame

NextStartup ==
  \/ \E c \in QueryIds, kind \in {"initialize", "query"} : CallInitialize(c, kind)
  \/ \E c \in QueryIds : Created(c)
  \/ \E c \in QueryIds : CreateFailed(c)
  \/ \E c \in QueryIds : RegisterMcpServers(c)
  \/ \E c \in QueryIds : McpRegistered(c)

SpecStartup == InitStartup /\ [][NextStartup]_vars

\* ------------------------------------------------------- specifications
\* the job that fires alongside the live-chat runs
RunJobs == {1}

Next ==
  \/ \E c \in Chats, t \in Texts : OnMessage(c, t)
  \/ \E k \in Keys : RunCompleted(k)
  \/ \E k \in Keys : RunFailed(k)
  \/ \E k \in Keys : RunAborted(k)
  \/ \E j \in RunJobs, key \in {0} \cup Keys, ia \in BOOLEAN, ha \in BOOLEAN :
        CronExecute(j, key, ia, ha, 1, "ping")
  \/ \E j \in RunJobs, o \in {"response", "empty", "throw"} : CronAgentEnd(j, o)
  \/ \E j \in RunJobs, o \in {"ok", "throw"} : CronSendEnd(j, o)

Spec == Init /\ [][Next]_vars

\* the run coordinator with the live-chat messages alone
NextRunner ==
  \/ \E c \in Chats, t \in Texts : OnMessage(c, t)
  \/ \E k \in Keys : RunCompleted(k)
  \/ \E k \in Keys : RunFailed(k)
  \/ \E k \in Keys : RunAborted(k)

SpecRunner == Init /\ [][NextRunner]_vars

\* every backend run terminates: with success, with a failure, or aborted
FairRunner ==
  /\ SpecRunner
  /\ \A k \in Keys : WF_vars(RunCompleted(k) \/ RunFailed(k) \/ RunAborted(k))

NextApproval ==
  \/ \E c \in Chats : WaitForApproval(c)
  \/ \E r \in ReqIds : ApprovalSendOk(r)
  \/ \E r \in ReqIds : ApprovalSendFail(r)
  \/ \E r \in ReqIds : ApprovalTimeout(r)
  \/ \E c \in Chats, t \in Texts : OnMessage(c, t)
  \/ \E k \in Keys : RunCompleted(k)

SpecApproval == Init /\ [][NextApproval]_vars

\* messages and resets in one chat while another chat has runs, approval
\* requests and a model menu
ResetTexts == {"hello", "/new", " /RESET "}

NextReset ==
  \/ \E t \in ResetTexts : OnMessage(1, t)
  \/ \E t \in {"hello", "/model"} : OnMessage(2, t)
  \/ WaitForApproval(2)
  \/ \E x \in SelIds : MenuSent(x)
  \/ \E k \in Keys : RunCompleted(k)

SpecReset == Init /\ [][NextReset]_vars

\* texts with and without a slash, commands in any case, with blanks around
\* them, with arguments, and words execute() does not know
DispatchTexts == {"hello", "", "hi /stop", "/foo", "/ new", "/stop\nnow",
                  "/new", " /RESET ", "/Status", "/memory x", "/queue", "/help",
                  "/stop", "/model 2", "/provider opencode"}

NextDispatch ==
  \/ \E c \in Chats, t \in DispatchTexts : OnMessage(c, t)
  \/ \E k \in Keys : RunCompleted(k)

SpecDispatch == Init /\ [][NextDispatch]_vars

NextProvider ==
  \/ \E q \in QueryIds, k \in Keys : PQueryStart(q, k)
  \/ \E q \in QueryIds : OcInitialized(q)
  \/ \E q \in QueryIds : OcInitFailed(q)
  \/ \E q \in QueryIds : OcSetupDone(q)
  \/ \E q \in QueryIds, created \in BOOLEAN : OcSetupFailed(q, created)
  \/ \E q \in QueryIds, ev \in {"part", "idle", "error"} : OcEvent(q, ev)
  \/ \E q \in QueryIds : OcAfterError(q)
  \/ \E q \in QueryIds : OcStreamFailed(q)
  \/ \E q \in QueryIds, c \in {"init", "msg"} : ClaudeChunk(q, c)
  \/ \E q \in QueryIds : ClaudeEnd(q)
  \/ \E q \in QueryIds : ClaudeThrows(q)
  \/ \E q \in QueryIds : ClaudeAbortError(q)
  \/ \E q \in QueryIds : QueryFinally(q)
  \/ \E k \in Keys : StopQuery(k)

SpecProvider == InitProvider /\ [][NextProvider]_vars

\* a timer that is armed fires (the send of the prompt may hang for ever)
FairApproval ==
  /\ SpecApproval
  /\ \A r \in ReqIds : WF_vars(ApprovalTimeout(r))

\* the execute handler of the cron scheduler with every payload
NextCron ==
  \/ \E j \in Jobs, key \in {0} \cup Keys, ia \in BOOLEAN, ha \in BOOLEAN,
        chat \in Chats, message \in CronMessages :
        CronExecute(j, key, ia, ha, chat, message)
  \/ \E j \in Jobs, o \in {"response", "empty", "throw"} : CronAgentEnd(j, o)
  \/ \E j \in Jobs, o \in {"ok", "throw"} : CronSendEnd(j, o)

SpecCron == Init /\ [][NextCron]_vars

\* the scheduler before any job was created
InitScheduler ==
  /\ InitCore
  /\ InitConfig
  /\ InitAdapter
  /\ InitCaps
  /\ waAllowedDMs = {Star} /\ waAllowedGroups = {} /\ waMentionsOnly = FALSE
  /\ pKind = "claude"
  /\ cronJobs = {}
  /\ jobStore = [j \in Jobs |-> NoJob]
  /\ jobIds = {}

\* ------------------------------ the inbound message handler, await by await
HIds == 1..MaxHandlers
\* the chat the messages followed come from, and their texts
HChat == 1
HTexts == {"hello", "/help"}

waVars == <<waAllowedDMs, waAllowedGroups, waMentionsOnly, waConnected,
            lidToPhone, phoneToLid, waEmitted, waSent, waDownloads>>

\* mutant: the optional methods pass the failure of the socket call on
OptionalCallRethrow(sockOk) == IF sockOk THEN "ok" ELSE "throw"

\* sendTyping, stopTyping, react of the adapter: try { await this.sock... }
\* catch { /* Ignore */ }: the call resolves whatever the socket call does
OptionalCall(sockOk) == "ok"

\* mutant: the optional method is called without looking for it
CallableAlways(has) == TRUE

\* if (adapter.sendTyping), if (adapter.stopTyping), ... && adapter.react
Callable(has) == has

\* mutant: the apology is sent outside a try block
AfterApologyEscapes(ok) == IF ok THEN "done" ELSE "rejected"

\* try { await adapter.sendMessage(apology) } catch (sendErr) { log }
AfterApology(ok) == "done"

\* where the catch block stands first: at stopTyping if the adapter has it
\* (calling a method that is not there throws out of the catch block), else
\* at the send of the apology
CatchPc ==
  IF Callable(hasStop) THEN (IF hasStop THEN "catchStop" ELSE "rejected")
  ELSE "apology"

\* control reaches catch (error)
Catch(h, cause) ==
  /\ hCaught' = [hCaught EXCEPT ![h] = cause]
  /\ hPc' = [hPc EXCEPT ![h] = CatchPc]

\* what the try block does after sendTyping, after execute() and after the
\* run: the next call it awaits ("missing": it calls a method that is not
\* there)
AfterTyping(pending) ==
  IF pending /\ Callable(hasReact) THEN (IF hasReact THEN "react" ELSE "missing")
  ELSE "enqueue"
AfterExecute(pending) ==
  IF Callable(hasTyping) THEN (IF hasTyping THEN "typing" ELSE "missing")
  ELSE AfterTyping(pending)
AfterRun ==
  IF Callable(hasStop) THEN (IF hasStop THEN "stopTyping" ELSE "missing")
  ELSE "done"

\* the try block goes on up to its next await
Goto(h, target) ==
  IF target = "enqueue"
  THEN /\ EnqueueRun(SessionKey(HChat))
       /\ hRun' = [hRun EXCEPT ![h] = nextRunId]
       /\ hPc' = [hPc EXCEPT ![h] = "run"]
       /\ UNCHANGED hCaught
  ELSE /\ IF target = "missing" THEN Catch(h, "missing")
          ELSE hPc' = [hPc EXCEPT ![h] = target] /\ UNCHANGED hCaught
       /\ UNCHANGED <<runnerVars, providerVars, hRun>>

HFrame == UNCHANGED <<cronVars, commandVars, approvalVars, streamVars, waVars, termVars, capVars>>

\* a message with no approval or selection pending in its chat: execute(),
\* which throws, handles the command, or leaves the text to the agent
HStart(h, text, execOk) ==
  /\ hPc[h] = "idle"
  /\ \A g \in HIds : g < h => hPc[g] # "idle"
  /\ pendingApprovals[HChat] = 0 /\ ~SelectionPending(HChat)
  /\ hText' = [hText EXCEPT ![h] = text]
  /\ hReact' = [hReact EXCEPT ![h] = Len(queues[SessionKey(HChat)]) > 0]
  /\ IF Command(text) # ""
     THEN /\ IF execOk THEN hPc' = [hPc EXCEPT ![h] = "cmdSend"] /\ UNCHANGED hCaught
                       ELSE Catch(h, "execute")
          /\ UNCHANGED <<runnerVars, providerVars, hRun>>
     ELSE Goto(h, AfterExecute(Len(queues[SessionKey(HChat)]) > 0))
  /\ UNCHANGED <<hFailed, hApology>>
  /\ HFrame

\* adapter.sendMessage(chatId, commandResult.response) settles
HCmdSend(h, ok) ==
  /\ hPc[h] = "cmdSend"
  /\ IF ok THEN hPc' = [hPc EXCEPT ![h] = "done"] /\ UNCHANGED hCaught
           ELSE Catch(h, "send")
  /\ UNCHANGED <<runnerVars, providerVars, hText, hRun, hReact, hFailed, hApology>>
  /\ HFrame

\* adapter.sendTyping(chatId) settles
HTyping(h, sockOk) ==
  /\ hPc[h] = "typing"
  /\ hFailed' = [hFailed EXCEPT ![h] = @ \/ ~sockOk]
  /\ IF OptionalCall(sockOk) = "ok"
     THEN Goto(h, AfterTyping(hReact[h]))
     ELSE Catch(h, "typing") /\ UNCHANGED <<runnerVars, providerVars, hRun>>
  /\ UNCHANGED <<hText, hReact, hApology>>
  /\ HFrame

\* adapter.react(chatId, id, hourglass) settles
HReacted(h, sockOk) ==
  /\ hPc[h] = "react"
  /\ hFailed' = [hFailed EXCEPT ![h] = @ \/ ~sockOk]
  /\ IF OptionalCall(sockOk) = "ok"
     THEN Goto(h, "enqueue")
     ELSE Catch(h, "react") /\ UNCHANGED <<runnerVars, providerVars, hRun>>
  /\ UNCHANGED <<hText, hReact, hApology>>
  /\ HFrame

\* agentRunner.enqueueRun(...) settles once the run has ended: it resolves,
\* or, for a run that did not complete, rejects
HRunEnd(h, rejects) ==
  /\ hPc[h] = "run"
  /\ status[hRun[h]] \in Terminal
  /\ IF status[hRun[h]] # "completed" /\ rejects
     THEN Catch(h, "run")
     ELSE IF AfterRun = "missing" THEN Catch(h, "missing")
     ELSE hPc' = [hPc EXCEPT ![h] = AfterRun] /\ UNCHANGED hCaught
  /\ UNCHANGED <<runnerVars, providerVars, hText, hRun, hReact, hFailed, hApology>>
  /\ HFrame

\* adapter.stopTyping(chatId) of the try block settles
HStopTyping(h, sockOk) ==
  /\ hPc[h] = "stopTyping"
  /\ hFailed' = [hFailed EXCEPT ![h] = @ \/ ~sockOk]
  /\ IF OptionalCall(sockOk) = "ok"
     THEN hPc' = [hPc EXCEPT ![h] = "done"] /\ UNCHANGED hCaught
     ELSE Catch(h, "stopTyping")
  /\ UNCHANGED <<runnerVars, providerVars, hText, hRun, hReact, hApology>>
  /\ HFrame

\* adapter.stopTyping(chatId) of the catch block settles: a rejection
\* leaves the handler
HCatchStop(h, sockOk) ==
  /\ hPc[h] = "catchStop"
  /\ hFailed' = [hFailed EXCEPT ![h] = @ \/ ~sockOk]
  /\ hPc' = [hPc EXCEPT ![h] = IF OptionalCall(sockOk) = "ok" THEN "apology" ELSE "rejected"]
  /\ UNCHANGED <<runnerVars, providerVars, hText, hRun, hReact, hCaught, hApology>>
  /\ HFrame

\* adapter.sendMessage(chatId, "Sorry, I encountered an error...") settles
HApology(h, ok) ==
  /\ hPc[h] = "apology"
  /\ hApology' = [hApology EXCEPT ![h] = IF ok THEN "sent" ELSE "failed"]
  /\ hPc' = [hPc EXCEPT ![h] = AfterApology(ok)]
  /\ UNCHANGED <<runnerVars, providerVars, hText, hRun, hReact, hCaught, hFailed>>
  /\ HFrame

NextHandler ==
  \/ \E h \in HIds, t \in HTexts, ok \in BOOLEAN : HStart(h, t, ok)
  \/ \E h \in HIds, ok \in BOOLEAN : HCmdSend(h, ok)
  \/ \E h \in HIds, ok \in BOOLEAN : HTyping(h, ok)
  \/ \E h \in HIds, ok \in BOOLEAN : HReacted(h, ok)
  \/ \E h \in HIds, rejects \in BOOLEAN : HRunEnd(h, rejects)
  \/ \E h \in HIds, ok \in BOOLEAN : HStopTyping(h, ok)
  \/ \E h \in HIds, ok \in BOOLEAN : HCatchStop(h, ok)
  \/ \E h \in HIds, ok \in BOOLEAN : HApology(h, ok)
  \/ \E k \in Keys : RunCompleted(k)
  \/ \E k \in Keys : RunFailed(k)

SpecHandler == InitHandler /\ [][NextHandler]_vars

\* ------------------------------------------------------- terminal chat
\* keystrokes: characters, Enter, Backspace, Ctrl+C and an arrow key
TermChars == {"y", "Y", "e", "s", "n", " "}
TermKeys == TermChars \cup {"Enter", "Backspace", "CtrlC", "ArrowUp"}

\* mutant: a reply that begins with 'y' allows
BehaviorPrefix(reply) ==
  LET answer == [i \in 1..Len(Trim(reply)) |-> Lower(Trim(reply)[i])]
  IN  IF answer # <<>> /\ answer[1] = "y" THEN "allow" ELSE "deny"

\* canUseTool after the await: answer = reply.trim().toLowerCase()
Behavior(reply) ==
  LET answer == [i \in 1..Len(Trim(reply)) |-> Lower(Trim(reply)[i])]
  IN  IF answer = <<"y">> \/ answer = <<"y", "e", "s">> THEN "allow" ELSE "deny"

\* canUseTool(toolName, input, options) for a tool other than
\* AskUserQuestion, up to the await: the resolver of the new promise
\* replaces the one held
TermCanUseTool ==
  /\ nextTermReq <= MaxReq
  /\ pendingApprovalResolve' = nextTermReq
  /\ nextTermReq' = nextTermReq + 1
  /\ UNCHANGED <<approvalInputBuffer, termReply, termBehavior>>
  /\ UNCHANGED <<waAllowedDMs, waAllowedGroups, waMentionsOnly, waConnected,
                 lidToPhone, phoneToLid, waEmitted, waSent, waDownloads>>
  /\ UNCHANGED <<runnerVars, providerVars, cronVars, commandVars, approvalVars, streamVars,
                 handlerVars>>

\* pendingApprovalResolve(text), and canUseTool from the await to its return
TermResolve(text) ==
  LET r == pendingApprovalResolve
  IN  /\ termReply' = [termReply EXCEPT ![r] = text]
      /\ termBehavior' = [termBehavior EXCEPT ![r] = Behavior(text)]
      /\ pendingApprovalResolve' = 0
      /\ approvalInputBuffer' = <<>>

\* stdin.on('data', key): Ctrl+C cancels the pending approval; in approval
\* input mode Enter hands the buffer over, Backspace drops a character,
\* escape sequences are ignored and other keys are appended.  With no
\* approval pending the key goes to the input bar, the model menu or the
\* interrupt, none of which the approval reads
TermKey(key) ==
  /\ IF pendingApprovalResolve = 0
     THEN UNCHANGED termVars
     ELSE IF key = "CtrlC" THEN TermResolve(<<>>) /\ UNCHANGED nextTermReq
     ELSE IF key = "Enter" THEN TermResolve(approvalInputBuffer) /\ UNCHANGED nextTermReq
     ELSE IF key = "Backspace"
     THEN /\ approvalInputBuffer' = IF approvalInputBuffer # <<>>
                                    THEN SubSeq(approvalInputBuffer, 1, Len(approvalInputBuffer) - 1)
                                    ELSE approvalInputBuffer
          /\ UNCHANGED <<pendingApprovalResolve, termReply, termBehavior, nextTermReq>>
     ELSE IF key = "ArrowUp" THEN UNCHANGED termVars
     ELSE /\ Len(approvalInputBuffer) < MaxBuf
          /\ approvalInputBuffer' = Append(approvalInputBuffer, key)
          /\ UNCHANGED <<pendingApprovalResolve, termReply, termBehavior, nextTermReq>>
  /\ UNCHANGED <<waAllowedDMs, waAllowedGroups, waMentionsOnly, waConnected,
                 lidToPhone, phoneToLid, waEmitted, waSent, waDownloads>>
  /\ UNCHANGED <<runnerVars, providerVars, cronVars, commandVars, approvalVars, streamVars,
                 handlerVars>>

NextTerminal ==
  \/ TermCanUseTool
  \/ \E key \in TermKeys : TermKey(key)

SpecTerminal == Init /\ [][NextTerminal]_vars

\* the scheduler with the jobs created, cancelled, fired and reloaded
NextScheduler ==
  \/ \E j \in Jobs, kind \in {"once", "cron"}, t \in 0..MaxTime : ScheduleJob(j, kind, t)
  \/ \E j \in Jobs : CancelJob(j)
  \/ Tick
  \/ \E j \in Jobs, ia, ha \in BOOLEAN : SchedulerFire(j, ia, ha)
  \/ \E j \in Jobs, o \in {"response", "throw"} : CronAgentEnd(j, o)
  \/ \E j \in Jobs, o \in {"ok", "throw"} : CronSendEnd(j, o)
  \/ Restart

SpecScheduler == InitScheduler /\ [][NextScheduler]_vars

\* time passes and a job that is due and loaded fires
FairScheduler ==
  /\ SpecScheduler
  /\ WF_vars(Tick)
  /\ \A j \in Jobs : WF_vars(\E ia, ha \in BOOLEAN : SchedulerFire(j, ia, ha))

\* the /model and /provider dialogues: commands, replies, menu sends, timers
SelTexts == {"/model", "/provider", "/model 2", "/model zzz",
             "/provider opencode", "1", "2", "9"}

\* the chats the dialogues are held in
SelChats == {1}

NextSelect ==
  \/ \E c \in SelChats, t \in SelTexts : OnMessage(c, t)
  \/ \E x \in SelIds : MenuSent(x)
  \/ \E x \in SelIds : MenuSendFailed(x)
  \/ \E x \in SelIds : SelectTimeout(x)
  \/ \E k \in Keys : RunCompleted(k)

SpecSelect == Init /\ [][NextSelect]_vars

\* a chat with a model menu, a provider menu and approval requests at once
PendingTexts == {"hello", "/model", "/provider", "1", "9"}

NextPending ==
  \/ \E c \in SelChats, t \in PendingTexts : OnMessage(c, t)
  \/ \E c \in Chats : WaitForApproval(c)
  \/ \E x \in SelIds : MenuSent(x)
  \/ \E k \in Keys : RunCompleted(k)

SpecPending == Init /\ [][NextPending]_vars

\* a timer that was set fires; a menu send that was started settles
FairSelect ==
  /\ SpecSelect
  /\ \A x \in SelIds :
       /\ WF_vars(SelectTimeout(x))
       /\ WF_vars(MenuSent(x) \/ MenuSendFailed(x))

\* provider queries with provider switches (/provider <name>) in between
NextSession ==
  \/ \E q \in QueryIds, k \in Keys : PQueryStart(q, k)
  \/ \E q \in QueryIds : OcInitialized(q)
  \/ \E q \in QueryIds : OcSetupDone(q)
  \/ \E q \in QueryIds, created \in BOOLEAN : OcSetupFailed(q, created)
  \/ \E q \in QueryIds : OcEvent(q, "idle")
  \/ \E q \in QueryIds, c \in {"init", "msg"} : ClaudeChunk(q, c)
  \/ \E q \in QueryIds : ClaudeEnd(q)
  \/ \E q \in QueryIds : QueryFinally(q)
  \/ \E c \in Chats, t \in {"/provider claude", "/provider opencode"} : OnMessage(c, t)

SpecSession == InitProvider /\ [][NextSession]_vars

\* the WhatsApp adapter on its own, under every allowlist configuration
NextAdapter(ms, cs) ==
  \/ \E jid \in Jids, fromMe, echo \in BOOLEAN, mentions \in ms, content \in cs :
        WaHandleMessage(jid, fromMe, echo, mentions, content)
  \/ \E ph \in Phones, l \in Lids : WaMapContact(ph, l)
  \/ WaConnect
  \/ \E ph \in Phones, l \in Lids : WaResolveAllowlist(ph, l)
  \/ WaSendMessage

\* text messages that mention the bot or nobody, under any allowlist
NextWhatsApp == NextAdapter({{}, {Lid(1)}}, {"none", "text"})

SpecWhatsApp == InitWhatsApp /\ [][NextWhatsApp]_vars

\* messages with any mention and any content, under a few allowlists
NextMention == NextAdapter(Mentions, Contents)

SpecMention == InitMention /\ [][NextMention]_vars

\* What runs without waiting for the backend: the continuations of the
\* generator (event loop), the consumer's next pull, and the Claude SDK's
\* reaction to the abort signal it was handed; a backend call that was made
\* returns or throws.  Whether the backend emits a further event on the
\* subscription is not in the code's hands.
FairProvider ==
  /\ SpecProvider
  /\ \A q \in QueryIds :
       /\ WF_vars(OcInitialized(q) \/ OcInitFailed(q))
       /\ WF_vars(OcSetupDone(q) \/ OcSetupFailed(q, FALSE))
       /\ WF_vars(OcAfterError(q))
       /\ WF_vars(ClaudeAbortError(q))
       /\ WF_vars(QueryFinally(q))

\* =================================================================
\* Claims about the run path (checked under Spec)
\* =================================================================
RunsOf(k, st) == {r \in RunIds : runKey[r] = k /\ status[r] = st}
Range(q) == {q[i] : i \in 1..Len(q)}

\* C1: for every session key at most one Run of that key is `processing`
\* (it is the key's active run), and every other non-terminal Run of the
\* key is `queued` (it is in the key's queue).
C1_OneProcessingPerKey ==
  \A k \in Keys :
    /\ Cardinality(RunsOf(k, "processing")) <= 1
    /\ RunsOf(k, "processing") = (IF activeRuns[k] = 0 THEN {} ELSE {activeRuns[k]})
    /\ \A r \in RunIds :
         (runKey[r] = k /\ status[r] \notin Terminal /\ status[r] # "processing")
            => (status[r] = "queued" /\ r \in Range(queues[k]))

C1_Witness ==
  \E k \in Keys : \E a, b, c \in RunIds :
    /\ runKey[a] = k /\ runKey[b] = k /\ runKey[c] = k
    /\ status[a] = "aborted" /\ status[b] = "processing" /\ status[c] = "queued"

\* C2: within one session key runs start in enqueue order: when run b starts
\* processing, every run a of the same key enqueued before it is terminal.
C2_FifoOrder ==
  [][\A b \in RunIds :
       (status[b] # "processing" /\ status'[b] = "processing")
          => \A a \in RunIds :
               (a < b /\ runKey'[a] = runKey'[b]) => status'[a] \in Terminal]_vars

\* a is still processing on its key while the later runs b, c of the other
\* key have gone ahead in their own order
C2_Witness ==
  \E a, b, c \in RunIds :
    /\ a < b /\ b < c
    /\ runKey[b] = runKey[c] /\ runKey[a] # runKey[b] /\ runKey[a] # 0
    /\ status[a] = "processing" /\ status[b] \in Terminal /\ status[c] = "processing"

\* C6: a scheduled invocation (invokeAgent) never executes while another run,
\* live-chat or scheduled, of the same session key executes.
C6_CronSerialized ==
  \A j \in Jobs :
    cronExec[j].state = "running" =>
      /\ cronExec[j].key \in Keys => activeRuns[cronExec[j].key] = 0
      /\ \A i \in Jobs \ {j} :
           ~(cronExec[i].state = "running" /\ cronExec[i].key = cronExec[j].key)

NothingActive(k) ==
  /\ activeRuns[k] = 0
  /\ \A j \in Jobs : ~(cronExec[j].state = "running" /\ cronExec[j].key = k)

\* C8: /stop on a key with nothing active answers 'Nothing to stop' and
\* changes neither the queues, the runs, the session tokens nor the
\* abort-controller registry.
C8_AbortIdleNoOp ==
  [][\A c \in Chats :
       (OnMessage(c, "/stop") /\ pendingApprovals[c] = 0
          /\ ~SelectionPending(c)
          /\ NothingActive(SessionKey(c)))
       => /\ lastStop' = "Nothing to stop"
          /\ UNCHANGED <<runnerVars, providerVars, cronExec>>]_vars

C8_Witness ==
  /\ lastStop = "Nothing to stop"
  /\ \A k \in Keys : NothingActive(k)
  /\ \E r \in RunIds : status[r] = "completed"

\* C9: /stop on a key with an active run (not aborted yet) answers that it
\* stopped, signals that run, removes nothing from the queues and leaves the other sessions
\* alone; the signalled run then ends `aborted` and the next queued run of
\* the key starts.
C9_AbortActiveRun ==
  /\ [][\A c \in Chats :
          (OnMessage(c, "/stop") /\ pendingApprovals[c] = 0
             /\ ~SelectionPending(c)
             /\ activeRuns[SessionKey(c)] # 0
             /\ RunExec(activeRuns[SessionKey(c)]) \notin signalled)
          => /\ lastStop' = "Stopped current operation"
             /\ RunExec(activeRuns[SessionKey(c)]) \in signalled'
             /\ UNCHANGED <<queues, activeRuns, status>>]_vars
  /\ [][\A r \in RunIds :
          (RunExec(r) \in signalled /\ status'[r] # status[r])
             => /\ status'[r] = "aborted"
                /\ queues[runKey[r]] # <<>> =>
                     status'[Head(queues[runKey[r]])] = "processing"]_vars

\* C10: a failing run becomes `failed`; no other run changes status except
\* the next queued run of the same key, which starts; nothing else leaves
\* that queue, and the queues and active runs of the other keys are as before.
C10_FailureIsolated ==
  [][\A k \in Keys :
       RunFailed(k) =>
         LET r == activeRuns[k]
         IN /\ status'[r] = "failed"
            /\ \A o \in RunIds \ {r} :
                 \/ status'[o] = status[o]
                 \/ /\ queues[k] # <<>> /\ o = Head(queues[k])
                    /\ status[o] = "queued" /\ status'[o] = "processing"
            /\ queues'[k] = (IF queues[k] = <<>> THEN <<>> ELSE Tail(queues[k]))
            /\ \A k2 \in Keys \ {k} :
                 queues'[k2] = queues[k2] /\ activeRuns'[k2] = activeRuns[k2]]_vars

C10_Witness ==
  \E a, b, c \in RunIds :
    /\ a < b /\ runKey[a] = runKey[b] /\ runKey[a] # 0
    /\ status[a] = "failed" /\ status[b] = "processing"
    /\ runKey[c] \notin {0, runKey[a]} /\ status[c] = "processing"

\* =================================================================
\* Claims about the approval broker (checked under SpecApproval)
\* =================================================================
\* C3: the registry holds at most one pending approval per conversation and
\* it is a live one (unresolved, deadline armed); a new waitForApproval on a
\* conversation with one pending resolves the stale one with null, cancels
\* its timer and installs the new one.
C3_SupersedeRule ==
  /\ [](\A c \in Chats :
          /\ Cardinality({r \in ReqIds : reqChat[r] = c /\ pendingApprovals[c] = r}) <= 1
          /\ pendingApprovals[c] # 0 =>
               /\ reqChat[pendingApprovals[c]] = c
               /\ reqResult[pendingApprovals[c]] = Unresolved
               /\ reqTimer[pendingApprovals[c]])
  /\ [][\A c \in Chats :
          (WaitForApproval(c) /\ pendingApprovals[c] # 0)
          => LET old == pendingApprovals[c]
             IN /\ reqResult'[old] = Null
                /\ ~reqTimer'[old]
                /\ pendingApprovals'[c] = nextReq
                /\ reqResult'[nextReq] = Unresolved
                /\ reqTimer'[nextReq]]_vars

C3_Witness ==
  \E c \in Chats : \E old, new \in ReqIds :
    /\ old < new /\ reqChat[old] = c /\ pendingApprovals[c] = new
    /\ reqResult[old] = Null /\ ~reqTimer[old] /\ reqSend[old] = "inflight"
    /\ reqResult[new] = Unresolved /\ reqTimer[new]

\* C4: an inbound message on a conversation with a pending approval resolves
\* the approval with the message text and is not processed any further: no
\* command runs and no run is enqueued, also when the text is /stop.
C4_ReplyNotProcessed ==
  [][\A c \in Chats, t \in Texts :
       (OnMessage(c, t) /\ pendingApprovals[c] # 0)
       => /\ reqResult'[pendingApprovals[c]] = t
          /\ pendingApprovals'[c] = 0
          /\ UNCHANGED <<runnerVars, providerVars, commandVars, cronExec>>]_vars

C4_Witness ==
  \E r \in ReqIds :
    /\ reqResult[r] = "/stop"
    /\ activeRuns[SessionKey(reqChat[r])] # 0
    /\ abortControllers[SessionKey(reqChat[r])] # None
    /\ lastStop = ""

\* C5: a request is resolved exactly once: its deadline timer is armed
\* exactly while it is unresolved (so the deadline resolves whatever nothing
\* else resolved), the timeout callback resolves an unresolved request with
\* null, a reply resolves it with the reply text and cancels the timer, and
\* a resolved request never changes its answer.
C5_ResolvedOnce ==
  /\ [](\A r \in ReqIds :
          reqChat[r] # 0 => (reqTimer[r] <=> reqResult[r] = Unresolved))
  /\ [][\A r \in ReqIds :
          reqResult[r] # Unresolved => reqResult'[r] = reqResult[r]]_vars
  /\ [][\A r \in ReqIds :
          ApprovalTimeout(r) => (reqResult[r] = Unresolved /\ reqResult'[r] = Null)]_vars
  /\ [][\A c \in Chats, t \in Texts :
          (OnMessage(c, t) /\ pendingApprovals[c] # 0)
          => /\ reqResult'[pendingApprovals[c]] = t
             /\ ~reqTimer'[pendingApprovals[c]]]_vars

C5_Witness ==
  \E a, b \in ReqIds :
    /\ reqResult[a] \in Texts /\ ~reqTimer[a]
    /\ reqResult[b] = Null /\ ~reqTimer[b] /\ reqSend[b] = "done"
    /\ pendingApprovals[reqChat[a]] = 0

\* =================================================================
\* Claims about the provider streams (checked under FairProvider)
\* =================================================================
Last(sq) == sq[Len(sq)]

\* the query was aborted before its stream yielded a terminal event
AbortedInFlight(q) == Aborted(q) /\ qPc[q] \in {"setup", "stream", "after_error"}

\* C7: once abort(key) has hit a query in flight, the query's stream ends
\* rather than waiting on, and it ends with `aborted` as its last event.
C7_AbortTerminates ==
  /\ \A q \in QueryIds : AbortedInFlight(q) ~> (qPc[q] = "ended")
  /\ [][\A q \in QueryIds :
          (AbortedInFlight(q) /\ qPc'[q] \in {"final", "ended"})
             => Last(qEvents'[q]) = "aborted"]_vars

\* =================================================================
\* Claims about session tokens (checked under SpecSession)
\* =================================================================
\* the token store of the instance query q runs on, as the step finds it
StoreAtStep(q) == IF qInst'[q] = inst THEN sessions ELSE retired[qInst'[q]]

\* C11: when a query looks up the token of its key, it talks in the session
\* of the stored token if there is one (and in a session of its own only if
\* there is none); an Opencode query that resumed a token never stores a
\* session of its own over it.
C11_ResumeStoredToken ==
  /\ [][\A q \in QueryIds :
          (qSession[q] = None /\ qSession'[q] # None)
             => /\ StoreAtStep(q)[qKey'[q]] # None
                     => qSession'[q] = StoreAtStep(q)[qKey'[q]]
                /\ StoreAtStep(q)[qKey'[q]] = None => qSession'[q] = QExec(q)]_vars
  /\ [][\A q \in QueryIds :
          (qKind[q] = "opencode" /\ qSession[q] \notin {None, QExec(q)})
             => /\ sessions'[qKey[q]] = QExec(q) => sessions[qKey[q]] = QExec(q)
                /\ \A i \in Insts :
                     retired'[i][qKey[q]] = QExec(q) => retired[i][qKey[q]] = QExec(q)]_vars

C11_Witness ==
  \E p, q \in QueryIds :
    /\ p # q /\ qKey[p] = qKey[q] /\ qKind[q] = "opencode"
    /\ qSession[q] = QExec(p) /\ qPc[q] = "ended"
    /\ sessions[qKey[q]] = QExec(p)

\* C12: a provider switch leaves no token in the store of agent.provider,
\* and no query ever talks in a session recorded on another provider
\* instance than its own: after the switch the first query of a key opens a
\* session of its own.
C12_SwitchClearsTokens ==
  /\ [][inst' # inst => \A k \in AllKeys : sessions'[k] = None]_vars
  /\ [](\A q \in QueryIds :
          qSession[q] \notin {None, QExec(q)}
             => \E p \in QueryIds : qSession[q] = QExec(p) /\ qInst[p] = qInst[q])
  /\ [](\A k \in AllKeys :
          sessions[k] # None
             => \E p \in QueryIds : sessions[k] = QExec(p) /\ qInst[p] = inst)

C12_Witness ==
  \E p, q \in QueryIds :
    /\ qKey[p] = qKey[q] /\ qInst[p] = 1 /\ qInst[q] = 2
    /\ retired[1][qKey[p]] = QExec(p)
    /\ qSession[q] = QExec(q) /\ sessions[qKey[q]] = QExec(q)

\* =================================================================
\* Claims about the WhatsApp adapter (checked under SpecWhatsApp)
\* =================================================================
\* the allowlist as the documentation states it
PassesAllowlist(jid) ==
  IF jid \in Groups
  THEN waAllowedGroups # {} /\ (Star \in waAllowedGroups \/ jid \in waAllowedGroups)
  ELSE \/ Star \in waAllowedDMs
       \/ jid \in waAllowedDMs
       \/ \E a \in waAllowedDMs :
            \/ jid \in Lids /\ lidToPhone[jid] = a
            \/ jid \in Phones /\ phoneToLid[jid] = a

\* C13: whenever the adapter hands a message to the gateway, the chat of that
\* message passes the allowlist as it stands, and the step sends nothing; a
\* message whose chat does not pass is therefore never emitted.
C13_AllowlistGate ==
  [][waEmitted' # waEmitted
       => /\ Len(waEmitted') = Len(waEmitted) + 1
          /\ PassesAllowlist(waEmitted'[Len(waEmitted')].chatId)
          /\ waSent' = waSent]_vars

\* a direct message from a LID that is allowed only through its phone alias
C13_Witness ==
  \E l \in Lids :
    /\ Len(waEmitted) = 1
    /\ waEmitted[1].chatId = l /\ ~waEmitted[1].isGroup
    /\ Star \notin waAllowedDMs /\ l \notin waAllowedDMs
    /\ lidToPhone[l] \in waAllowedDMs

\* =================================================================
\* Liveness of the approval broker (checked under FairApproval)
\* =================================================================
\* C14: every approval request is eventually resolved and then has no
\* pending record; a resolved request never has one.
C14_ApprovalEventuallyResolved ==
  /\ \A r \in ReqIds :
       (reqChat[r] # 0)
          ~> (reqResult[r] # Unresolved /\ pendingApprovals[reqChat[r]] # r)
  /\ [](\A r \in ReqIds :
          (reqChat[r] # 0 /\ reqResult[r] # Unresolved)
             => pendingApprovals[reqChat[r]] # r)

\* the first request was superseded, the second one answered by a reply
C14_Witness ==
  \E a, b \in ReqIds :
    /\ a < b /\ reqChat[a] = reqChat[b] /\ reqChat[a] # 0
    /\ reqResult[a] = Null /\ reqResult[b] = "hello"
    /\ reqSend[a] = "done" /\ reqSend[b] = "done"
    /\ pendingApprovals[reqChat[a]] = 0

\* =================================================================
\* The /model and /provider dialogues (checked under SpecSelect, FairSelect)
\* =================================================================
\* C15: every selection that was registered (its menu sent, its promise
\* waiting) is eventually resolved, by a reply or by its 30 s deadline.
C15_SelectionResolves ==
  \A x \in SelIds : (selState[x] = "waiting") ~> (selResult[x] # Unresolved)

\* C16: the timer of a selection that is already resolved, when it fires,
\* removes no pending selection (in particular not a newer one's).
C16_StaleTimerHarmless ==
  [][\A x \in SelIds :
       (selTimer[x] /\ ~selTimer'[x] /\ selResult[x] # Unresolved)
          => /\ pendingModelSelect' = pendingModelSelect
             /\ pendingProviderSelect' = pendingProviderSelect]_vars

\* the replies that name an entry of the model menu or the provider menu
ValidEntries == {"1", "2"}

\* C17: when a selection is resolved by its deadline (null) or by a reply
\* that names no menu entry, the command returns "" resp. "No change." and
\* does not throw, and model, provider and session tokens stay as they were;
\* they change in a resolving step only for a reply that names an entry.
C17_InvalidOrExpiredNoChange ==
  [][\A x \in SelIds :
       (selResult[x] = Unresolved /\ selResult'[x] # Unresolved)
          => /\ selResponse'[x] # "throw"
             /\ selResult'[x] = Null => selResponse'[x] = ""
             /\ (selResult'[x] # Null /\ selResult'[x] \notin ValidEntries)
                   => selResponse'[x] = "No change."
             /\ selResult'[x] \notin ValidEntries
                   => /\ currentModel' = currentModel
                      /\ pKind' = pKind /\ inst' = inst
                      /\ sessions' = sessions]_vars

\* with a model chosen and a token stored, one selection ran into its
\* deadline and another was answered with a number that is not on the menu
C17_Witness ==
  \E x, y \in SelIds :
    /\ selResult[x] = Null /\ selResponse[x] = ""
    /\ selResult[y] = "9" /\ selResponse[y] = "No change."
    /\ currentModel # 0
    /\ \E k \in Keys : sessions[k] # None

\* =================================================================
\* Progress of the run coordinator (checked under FairRunner)
\* =================================================================
\* C18: every enqueued run eventually starts and eventually reaches a
\* terminal status; the step that ends the active run of a key starts the
\* head of the key's queue, or clears the key's flag when the queue is empty.
C18_EveryRunStartsAndEnds ==
  /\ \A r \in RunIds : (status[r] = "queued") ~> (status[r] = "processing")
  /\ \A r \in RunIds : (status[r] # "none") ~> (status[r] \in Terminal)
  /\ [][\A k \in Keys :
          (activeRuns[k] # 0 /\ status'[activeRuns[k]] \in Terminal)
             => IF queues[k] # <<>>
                THEN /\ activeRuns'[k] = Head(queues[k])
                     /\ status'[Head(queues[k])] = "processing"
                     /\ queues'[k] = Tail(queues[k])
                ELSE activeRuns'[k] = 0]_vars

\* three runs of one key: the first ended, the second was started by that
\* completion and ended too, the third is processing
C18_Witness ==
  \E k \in Keys :
    /\ \A r \in RunIds : runKey[r] = k
    /\ status[1] \in Terminal /\ status[2] \in Terminal
    /\ status[3] = "processing" /\ activeRuns[k] = 3

\* =================================================================
\* The cron execute handler (checked under SpecCron)
\* =================================================================
\* C19: a fire event with invokeAgent false and an adapter makes one
\* sendMessage call with the job's chat and its message text as it is, and
\* touches neither the provider nor the runs; when that call settles the
\* handler is over, without a further send and without the agent.
C19_DirectDelivery ==
  /\ [][\A j \in Jobs, key \in {0} \cup Keys, chat \in Chats, message \in CronMessages :
          CronExecute(j, key, FALSE, TRUE, chat, message)
             => /\ cronExec'[j] = [state |-> "sending", key |-> 0,
                                   chatId |-> chat, text |-> message]
                /\ UNCHANGED <<providerVars, runnerVars>>]_vars
  /\ [][\A j \in Jobs :
          (cronExec[j].state = "sending" /\ cronExec'[j] # cronExec[j])
             => /\ cronExec'[j] = IdleCron
                /\ UNCHANGED <<providerVars, runnerVars>>]_vars

\* a direct delivery is in flight and no agent was ever invoked
C19_Witness ==
  \E j \in Jobs :
    /\ cronExec[j] = [state |-> "sending", key |-> 0, chatId |-> 2, text |-> "report"]
    /\ \A k \in AllKeys : sessions[k] = None /\ abortControllers[k] = None

\* C20: no rejection leaves the execute handler and no step of it changes
\* the job store; the step that logs a failure (or a missing adapter) ends
\* the handler of that job and leaves the handlers and logs of the other
\* jobs alone; a job whose handler is idle can fire and deliver, whatever
\* happened to the others; a fire event without adapter changes nothing but
\* the log.
C20_CronFailureContained ==
  /\ [](~cronEscaped)
  /\ [][cronJobs' = cronJobs]_vars
  /\ [][\A j \in Jobs :
          cronLog'[j] # cronLog[j]
             => /\ cronExec'[j] = IdleCron
                /\ \A i \in Jobs \ {j} :
                     cronExec'[i] = cronExec[i] /\ cronLog'[i] = cronLog[i]]_vars
  /\ [](\A i \in Jobs :
          cronExec[i].state = "idle"
             => ENABLED CronExecute(i, 0, FALSE, TRUE, 1, "ping"))
  /\ [][\A j \in Jobs, key \in {0} \cup Keys, ia \in BOOLEAN, chat \in Chats,
          message \in CronMessages :
          CronExecute(j, key, ia, FALSE, chat, message)
             => /\ cronExec' = cronExec
                /\ cronLog'[j] = "no adapter"
                /\ UNCHANGED <<providerVars, runnerVars, adapterVars>>]_vars

\* job 1 failed and fired again, its delivery is in flight; job 2 fired for
\* a platform without adapter
C20_Witness ==
  /\ cronLog[1] = "failed" /\ cronExec[1].state = "sending"
  /\ cronLog[2] = "no adapter" /\ cronExec[2].state = "idle"
  /\ cronJobs = Jobs

\* =================================================================
\* The scheduler's job store (checked under FairScheduler, SpecScheduler)
\* =================================================================
\* C21: a one-shot job that fires has not fired before and is gone from
\* the persisted store and from memory after the step; fire events are
\* emitted only for jobs that are in the store, so neither a later tick nor
\* a restart that reloads the store fires it again; unless cancelled, a
\* one-shot job does fire and leave the store.
C21_OneShotOnce ==
  /\ [][\A j \in Jobs :
          (jobStore[j].kind = "once" /\ jobFires'[j] # jobFires[j])
             => /\ jobFires[j] = 0 /\ jobFires'[j] = 1
                /\ jobStore'[j] = NoJob
                /\ j \notin cronJobs']_vars
  /\ [][\A j \in Jobs :
          jobFires'[j] # jobFires[j] => (j \in cronJobs /\ jobStore[j] # NoJob)]_vars
  /\ [](\A j \in Jobs : j \in cronJobs => jobStore[j] # NoJob)
  /\ [][\A j \in Jobs :
          (j \in jobIds /\ jobStore[j] = NoJob) => jobStore'[j] = NoJob]_vars
  /\ \A j \in Jobs : (jobStore[j].kind = "once") ~> (jobStore[j] = NoJob)

\* a job fired once before the last process start, is in neither the
\* store nor the memory, and has not fired since, with the clock at its end
C21_Witness ==
  \E j \in Jobs :
    /\ j \in jobIds /\ jobStore[j] = NoJob /\ j \notin cronJobs
    /\ bootFires[j] = 1 /\ jobFires[j] = 1
    /\ now = MaxTime

\* C22: a recurring job that fires stays in the store and in memory and
\* its persisted next fire time becomes strictly later; its next fire time
\* never moves back; its record leaves the store only in a cancellation.
C22_RecurringRetained ==
  /\ [][\A j \in Jobs :
          (jobStore[j].kind = "cron" /\ jobFires'[j] # jobFires[j])
             => /\ jobStore'[j].kind = "cron"
                /\ jobStore'[j].next > jobStore[j].next
                /\ jobStore'[j].next > now
                /\ j \in cronJobs']_vars
  /\ [][\A j \in Jobs :
          (jobStore[j].kind = "cron" /\ jobStore'[j] # jobStore[j])
             => \/ jobStore'[j].kind = "cron" /\ jobStore'[j].next > jobStore[j].next
                \/ jobStore'[j] = NoJob /\ CancelJob(j)]_vars

\* a recurring job fired twice, once before and once after a restart
C22_Witness ==
  \E j \in Jobs :
    /\ jobStore[j].kind = "cron" /\ j \in cronJobs
    /\ bootFires[j] = 1 /\ jobFires[j] = 2
    /\ jobStore[j].next > now

\* =================================================================
\* Mention gating in groups (checked under SpecMention)
\* =================================================================
\* C27: with respondToMentionsOnly, a group message is handed to the gateway
\* only if its mentionedJid list holds the bot's own phone JID or its LID;
\* an image is downloaded only in a step that hands the message over, so a
\* group message that does not mention the bot is dropped with no download
\* and nothing of it reaches the gateway.
C27_MentionGate ==
  /\ [][waEmitted' # waEmitted
         => LET e == waEmitted'[Len(waEmitted')]
            IN  /\ Len(waEmitted') = Len(waEmitted) + 1
                /\ (e.isGroup /\ waMentionsOnly)
                     => (Phone(1) \in e.raw \/ Lid(1) \in e.raw)]_vars
  /\ [][waDownloads' # waDownloads
         => /\ waEmitted' # waEmitted
            /\ waEmitted'[Len(waEmitted')].image]_vars
  /\ [](waDownloads <= Len(waEmitted))

\* a group message that mentions the bot's LID was handed over with its
\* image while only mentions are answered
C27_Witness ==
  /\ waMentionsOnly
  /\ waDownloads = 1
  /\ Len(waEmitted) = 1
  /\ waEmitted[1].isGroup /\ waEmitted[1].image
  /\ waEmitted[1].raw = {Lid(1)} /\ waEmitted[1].mentions = {"self"}

\* =================================================================
\* The reset command (checked under SpecReset)
\* =================================================================
\* the texts execute() takes for a reset
IsResetText(t) == t \in {"/new", " /RESET "}

\* C28: a reset command for the key of a chat leaves that key without an
\* entry in the agent's session map and in the session registry, changes no
\* other key's entries, no run queue, no active run and no pending approval
\* or selection; the next message of the key that is enqueued as a run
\* creates both entries again.
C28_ResetFrame ==
  /\ [][\A c \in {1}, t \in ResetTexts :
          (IsResetText(t) /\ pendingApprovals[c] = 0 /\ ~SelectionPending(c)
             /\ OnMessage(c, t))
          => /\ SessionKey(c) \notin agentSessions'
             /\ SessionKey(c) \notin registry'
             /\ \A k \in AllKeys \ {SessionKey(c)} :
                   /\ k \in agentSessions' <=> k \in agentSessions
                   /\ k \in registry' <=> k \in registry
             /\ UNCHANGED <<runnerVars, approvalVars, commandVars>>]_vars
  /\ [][\A c \in Chats :
          (pendingApprovals[c] = 0 /\ ~SelectionPending(c) /\ OnMessage(c, "hello"))
          => (SessionKey(c) \in agentSessions' /\ SessionKey(c) \in registry')]_vars

\* a key was reset while its run is active, another key keeps its entries
\* and a pending approval, a model selection is pending too
C28_Witness ==
  \E c \in {1}, d \in {2} :
    /\ activeRuns[SessionKey(c)] # 0
    /\ SessionKey(c) \notin agentSessions /\ SessionKey(c) \notin registry
    /\ SessionKey(d) \in agentSessions /\ SessionKey(d) \in registry
    /\ pendingApprovals[d] # 0
    /\ pendingModelSelect[d] # 0

\* =================================================================
\* Command dispatch (checked under SpecDispatch)
\* =================================================================
\* the text without the blanks and line breaks at its ends starts with '/'
StartsWithSlash(t) ==
  LET cs == Chars(t)
  IN  \E i \in 1..Len(cs) :
        /\ cs[i] = "/"
        /\ \A j \in 1..(i - 1) : cs[j] \in {" ", "\n"}

\* the first word of such a text: what follows the '/' up to the first
\* space, in lower case ("" if a space follows at once)
FirstWord(t) ==
  LET cs == Chars(t)
      i == CHOOSE n \in 1..Len(cs) : cs[n] = "/" /\ \A j \in 1..(n - 1) : cs[j] \in {" ", "\n"}
      end == IF \E n \in (i + 1)..Len(cs) : cs[n] = " "
             THEN CHOOSE n \in (i + 1)..Len(cs) :
                    cs[n] = " " /\ \A j \in (i + 1)..(n - 1) : cs[j] # " "
             ELSE Len(cs) + 1
      rest == SubSeq(cs, i + 1, end - 1)
      word == IF rest # <<>> /\ rest[Len(rest)] = "\n" THEN SubSeq(rest, 1, Len(rest) - 1) ELSE rest
  IN  IF word = <<>> THEN ""
      ELSE IF Len(word) = 1
           THEN (CASE word[1] = "RESET" -> "reset" [] word[1] = "Status" -> "status" [] OTHER -> word[1])
           ELSE "?"

\* the condition under which the text is not a command
NotACommand(t) == ~StartsWithSlash(t) \/ FirstWord(t) \notin Commands

C30_OneRecordPerMessage ==
  [][\A c \in SelChats, t \in PendingTexts :
       OnMessage(c, t)
       => LET r == pendingApprovals[c]
              m == pendingModelSelect[c]
              p == pendingProviderSelect[c]
          IN  /\ r # 0
                   => /\ pendingApprovals'[c] = 0
                      /\ reqResult[r] = Unresolved => reqResult'[r] = t
                      /\ UNCHANGED <<pendingModelSelect, pendingProviderSelect, selVars>>
              /\ (r = 0 /\ m # 0)
                   => /\ pendingModelSelect'[c] = 0
                      /\ selResult[m] = Unresolved => selResult'[m] = t
                      /\ UNCHANGED <<approvalVars, pendingProviderSelect>>
                      /\ p # 0 => /\ selResult'[p] = selResult[p]
                                  /\ selState'[p] = selState[p]
                                  /\ selTimer'[p] = selTimer[p]
              /\ (r = 0 /\ m = 0 /\ p # 0)
                   => /\ pendingProviderSelect'[c] = 0
                      /\ selResult[p] = Unresolved => selResult'[p] = t
                      /\ UNCHANGED <<approvalVars, pendingModelSelect>>
              /\ \A d \in Chats \ {c} :
                    /\ pendingApprovals'[d] = pendingApprovals[d]
                    /\ pendingModelSelect'[d] = pendingModelSelect[d]
                    /\ pendingProviderSelect'[d] = pendingProviderSelect[d]]_vars

\* a reply settled the approval of a chat whose model and provider selections
\* are both still pending, and another chat's approval is pending too
C30_Witness ==
  \E c \in SelChats, r \in ReqIds :
    /\ reqChat[r] = c /\ reqResult[r] = "1"
    /\ pendingApprovals[c] = 0
    /\ pendingModelSelect[c] # 0 /\ selResult[pendingModelSelect[c]] = Unresolved
    /\ pendingProviderSelect[c] # 0 /\ selResult[pendingProviderSelect[c]] = Unresolved
    /\ \E d \in Chats \ {c} : pendingApprovals[d] # 0

\* =================================================================
\* Tool approval in terminal chat (checked under SpecTerminal)
\* =================================================================
\* the reply is 'y' or 'yes' in any case, with blanks before or after it
IsYes(reply) ==
  \E pre, post \in 0..Len(reply) :
    /\ pre + post <= Len(reply)
    /\ \A i \in 1..pre : reply[i] = " "
    /\ \A i \in (Len(reply) - post + 1)..Len(reply) : reply[i] = " "
    /\ SubSeq(reply, pre + 1, Len(reply) - post) \in
         {<<a>> : a \in {"y", "Y"}}
           \cup {<<a, b, c>> : a \in {"y", "Y"}, b \in {"e"}, c \in {"s"}}

\* C26: a tool request answered in terminal chat is allowed exactly when the
\* reply, trimmed and in lower case, is 'y' or 'yes', and denied for every
\* other reply; Ctrl+C while a request is pending answers it with the empty
\* reply, which denies it.
C26_TerminalApproval ==
  /\ [](\A r \in ReqIds :
          /\ termBehavior[r] = "allow" => (termReply[r] # None /\ IsYes(termReply[r]))
          /\ termReply[r] # None
               => termBehavior[r] = (IF IsYes(termReply[r]) THEN "allow" ELSE "deny"))
  /\ [][(pendingApprovalResolve # 0 /\ TermKey("CtrlC"))
         => /\ termReply'[pendingApprovalResolve] = <<>>
            /\ termBehavior'[pendingApprovalResolve] = "deny"]_vars

\* one request was allowed with 'Yes', another denied by the empty reply
C26_Witness ==
  \E r, q \in ReqIds :
    /\ termBehavior[r] = "allow" /\ termReply[r] = <<"Y", "e", "s">>
    /\ termBehavior[q] = "deny" /\ termReply[q] = <<>>

C25_MissingMethodsSkipped ==
  [](\A h \in HIds :
       (~hasTyping \/ ~hasStop \/ ~hasReact)
         => /\ hCaught[h] # "missing"
            /\ hPc[h] # "rejected"
            /\ (Command(hText[h]) = "" /\ hPc[h] \notin {"idle", "typing", "react"}) => hRun[h] # 0
            /\ (hPc[h] = "done" /\ hRun[h] # 0) => status[hRun[h]] \in Terminal)

\* with an adapter that has none of the three, one message was answered and
\* another, whose run failed, got the apology
C25_Witness ==
  /\ ~hasTyping /\ ~hasStop /\ ~hasReact
  /\ \E h, g \in HIds :
       /\ hPc[h] = "done" /\ hCaught[h] = "" /\ hRun[h] # 0 /\ status[hRun[h]] = "completed"
       /\ hPc[g] = "done" /\ hCaught[g] = "run" /\ hApology[g] = "sent"

\* =================================================================
\* Claims about the event vocabulary of a stream (checked under SpecProvider)
\* =================================================================
TerminalEvents == {"done", "error", "aborted"}

\* C31: a query stream yields a terminal event (done, error, aborted) only
\* as its last event: no stream yields two terminal events, no event follows
\* a terminal event, and a stream that ended without throwing ended with one.
C31_OneTerminalEvent ==
  \A q \in QueryIds :
    /\ \A i \in 1..Len(qEvents[q]) :
         qEvents[q][i] \in TerminalEvents => i = Len(qEvents[q])
    /\ (qPc[q] = "ended" /\ Last(qEvents[q]) # "throw")
         => Last(qEvents[q]) \in TerminalEvents

\* =================================================================
\* Claims about the Opencode event loop (checked under SpecLoop)
\* =================================================================
RECURSIVE Concat(_, _)
\* the texts of the deltas yielded for part p, joined in the order of sq
Concat(sq, p) ==
  IF sq = <<>> THEN <<>>
  ELSE (IF Head(sq).type = "delta" /\ Head(sq).part = p THEN Head(sq).text ELSE <<>>)
         \o Concat(Tail(sq), p)

DeltasOf(p) == Concat(ocYielded, p)

\* C32: a delta is yielded for a text or reasoning part only when the
\* snapshot read is longer than what was yielded of the part before, and it
\* is not empty; as long as every snapshot of a part extended the one before
\* it, the deltas yielded for the part, joined, are its latest snapshot.
C32_DeltasRebuildSnapshot ==
  /\ [](\A p \in PartIds : ocExtends[p] => DeltasOf(p) = ocSnapshot[p])
  /\ [][\A p \in PartIds :
          (Len(ocYielded') > Len(ocYielded) /\ Last(ocYielded').type = "delta"
              /\ Last(ocYielded').part = p)
            => /\ Len(ocSnapshot'[p]) > Len(DeltasOf(p))
               /\ Last(ocYielded').text # <<>>]_vars

\* a part got two deltas out of snapshots that extended each other, and an
\* event was read that yielded nothing beside the user's message part
C32_Witness ==
  \E p \in PartIds :
    /\ ocExtends[p] /\ Len(ocSnapshot[p]) = 2 /\ lastYieldedLength[p] = 2
    /\ Len(ocYielded) = 2 /\ ocYielded[1].part = p /\ ocYielded[2].part = p
    /\ ocYielded[1].type = "delta" /\ ocYielded[2].type = "delta"
    /\ userMessageId # 0 /\ ocRead = 4

\* the tool_use events yielded for invocation id
AnnouncementsOf(id) ==
  {i \in 1..Len(ocYielded) : ocYielded[i].type = "tool_use" /\ ocYielded[i].part = id}

\* C33: within one query stream an invocation id is announced by at most one
\* tool_use event, however many updates repeat it, and no update whose state
\* is pending announces it.
C33_AnnouncedOnce ==
  /\ [](\A id \in PartIds : Cardinality(AnnouncementsOf(id)) <= 1)
  /\ [][\A id \in PartIds :
          (Len(ocYielded') > Len(ocYielded) /\ Last(ocYielded').type = "tool_use"
              /\ Last(ocYielded').part = id)
            => /\ Last(ocStates'[id]) # "pending"
               /\ AnnouncementsOf(id) = {}]_vars

\* an invocation was updated as pending, running and completed, and it was
\* announced once, by the update that was running
C33_Witness ==
  \E id \in PartIds :
    /\ ocStates[id] = <<"pending", "running", "completed">>
    /\ Cardinality(AnnouncementsOf(id)) = 1
    /\ Len(ocYielded) = 1

\* =================================================================
\* Claims about superseded approval requests (checked under SpecApproval)
\* =================================================================
\* C34: a request leaves the registry of its conversation only in a step
\* that settles that very request (its reply, its deadline, the failure of
\* its own prompt, or a newer request superseding it); in particular the
\* failed prompt of an older request never removes the record of a newer one.
C34_OnlyOwnRecordRemoved ==
  [][\A c \in Chats :
       (pendingApprovals[c] # 0 /\ pendingApprovals'[c] # pendingApprovals[c])
         => /\ reqResult[pendingApprovals[c]] = Unresolved
            /\ reqResult'[pendingApprovals[c]] # Unresolved]_vars

\* =================================================================
\* Claims about the abort registry of a provider (checked under SpecProvider)
\* =================================================================
\* query q has stored its controller, has not been aborted and has not yet
\* yielded its last event
Running(q) == qPc[q] \in {"setup", "stream", "after_error"} /\ ~Aborted(q)

\* C35: the provider holds a controller for a key exactly while a query for
\* the key is in flight: every running query of a key finds a controller
\* stored under the key (so abort(key) returns true), two overlapping
\* queries of one key included, and a stored controller belongs to a query
\* that has not ended.
C35_ControllerWhileInFlight ==
  \A k \in Keys :
    /\ (\E q \in QueryIds : qKey[q] = k /\ Running(q)) => abortControllers[k] # None
    /\ abortControllers[k] # None
         => \E q \in QueryIds : /\ qKey[q] = k /\ QExec(q) = abortControllers[k]
                                /\ qPc[q] \notin {"idle", "ended"}

\* =================================================================
\* Claims about the start-up of the Opencode provider (checked under SpecStartup)
\* =================================================================
\* C36: one provider instance creates its client (and local server) at most
\* once and runs the registration of the MCP servers at most once, however
\* its callers interleave before the start-up has completed.
C36_StartedOnce == clientsCreated <= 1 /\ mcpAdded <= 1

\* =================================================================
\* Claims about the echoes of sent messages (checked under SpecEcho)
\* =================================================================
\* C37: the echo of a message the bot sent through sendMessage is never
\* emitted to the gateway as an inbound message, whenever the echo arrives.
C37_EchoNeverEmitted == echoEmitted = {}

\* =================================================================
\* Claims about the runs of terminal chat (checked under SpecChat)
\* =================================================================
\* C38: at most one run of the terminal session is in flight at any time,
\* after a Ctrl+C interrupt as well; the running flag is set only while a
\* run is in flight, and it is set while a run that was not interrupted is
\* in flight.
C38_OneRunInFlight ==
  /\ Cardinality(InFlight(tRun)) <= 1
  /\ isRunning => InFlight(tRun) # {}
  /\ (\E r \in 1..MaxTermRuns : tRun[r] = "streaming") => isRunning

====
